---- MODULE Spec2Model ----
(***************************************************************************)
(* A model of the retrieval core of the holo conversational backend:       *)
(*   - KnowledgeService   (apps/holo-api/src/app/knowledge.service.ts)     *)
(*   - SqlService         (unnamed/part_001, the schema filter)            *)
(*   - RagService         (apps/holo-api/src/app/rag.service.ts)           *)
(*   - MemoryRagService   (apps/holo-api/src/app/app.module.ts)            *)
(*                                                                         *)
(* Text is a sequence of one-character strings.  Every async method is a   *)
(* process whose steps are the code between two awaits.  Each engine has   *)
(* its own specification (SpecKnow, SpecSql, SpecRag, SpecMem, SpecMemFull,  *)
(* SpecMemRet, SpecKnowRet, FairBoot); a specification leaves the other    *)
(* engines' variables unchanged.                                           *)
(***************************************************************************)
EXTENDS Integers, Sequences, FiniteSets, TLC

VARIABLES
    \* KnowledgeService
    kContent, kChunks, kDisk, kSaveTimer, kWrites, kSets, kOut, kFailed,
    \* SqlService
    sqlActive, sqlSchema, sqlOut, sqlPools, sqlReads, sqlReqs, sqlClients,
    \* the embedding backend, the clock, the knowledge directory, the cache file
    ollama, now, fsDir, cacheFile, envOps,
    \* RagService
    ollamaConnected, embeddings, ragEntries, indexedFiles, lastIndexed,
    indexing, initPc, idx, rc, loadEv, ragOps,
    \* MemoryRagService
    memEntries, memNext, memSaveTimer, memDisk, memBoot, bf, add, ret, memEv, memOps,
    \* HoloGateway and ConversationStore
    gwSockets, gwSessions, gwOwner, gwChat, gwEmitted, gwLog, gwOps

kVars   == <<kContent, kChunks, kDisk, kSaveTimer, kWrites, kSets, kOut, kFailed>>
sqlVars == <<sqlActive, sqlSchema, sqlOut, sqlPools, sqlReads, sqlReqs, sqlClients>>
envVars == <<ollama, now, fsDir, cacheFile, envOps>>
ragVars == <<ollamaConnected, embeddings, ragEntries, indexedFiles, lastIndexed,
             indexing, initPc, idx, rc, loadEv, ragOps>>
memVars == <<memEntries, memNext, memSaveTimer, memDisk, memBoot, bf, add, ret, memEv, memOps>>
gwVars  == <<gwSockets, gwSessions, gwOwner, gwChat, gwEmitted, gwLog, gwOps>>
vars    == <<kVars, gwVars, sqlVars, envVars, ragVars, memVars, gwVars>>

Null == "null"

(***************************************************************************)
(* Text helpers: what the JavaScript string methods used by the code do.   *)
(***************************************************************************)
NL == "\n"
SP == " "

SetMin(S) == CHOOSE m \in S : \A o \in S : m <= o
SetMax(S) == 0 - SetMin({0 - x : x \in S})

\* n copies of the character c
Rep(c, n) == [i \in 1..n |-> c]

\* String.prototype.trim: white space is stripped at both ends
IsSpace(c) == c \in {SP, NL, "\t"}

Trim(s) ==
    LET keep == {i \in 1..Len(s) : ~IsSpace(s[i])}
    IN  IF keep = {} THEN <<>> ELSE SubSeq(s, SetMin(keep), SetMax(keep))

\* String.prototype.slice(-n)
SliceLast(s, n) == IF Len(s) <= n THEN s ELSE SubSeq(s, Len(s) - n + 1, Len(s))

\* String.prototype.slice(0, n)
SliceFirst(s, n) == IF Len(s) <= n THEN s ELSE SubSeq(s, 1, n)

\* String.prototype.includes
Includes(s, k) ==
    \E i \in 1..(Len(s) - Len(k) + 1) : SubSeq(s, i, i + Len(k) - 1) = k

StartsWith(s, k) == Len(k) <= Len(s) /\ SubSeq(s, 1, Len(k)) = k
EndsWith(s, k)   == Len(k) <= Len(s) /\ SubSeq(s, Len(s) - Len(k) + 1, Len(s)) = k

\* the elements of a sequence (Array.prototype.some / every / includes)
Range(s) == {s[i] : i \in 1..Len(s)}

\* Array.prototype.filter, by the set of kept indices: the k-th element of
\* the result is the element at the k-th smallest kept index
KeepIdx(s, keep) ==
    LET Kept(i) == i \in keep
        idxs == SelectSeq([i \in 1..Len(s) |-> i], Kept)
    IN  [k \in 1..Len(idxs) |-> s[idxs[k]]]

\* Array.prototype.splice(i, 1)
RemoveAt(s, i) == [j \in 1..(Len(s) - 1) |-> IF j < i THEN s[j] ELSE s[j + 1]]

\* Array.prototype.join
RECURSIVE Join(_, _)
Join(parts, sep) ==
    IF parts = <<>> THEN <<>>
    ELSE IF Len(parts) = 1 THEN parts[1]
    ELSE parts[1] \o sep \o Join(Tail(parts), sep)

(***************************************************************************)
(* KnowledgeService                                                        *)
(***************************************************************************)
chunkSize == 500
overlap   == 50

\* text.split(/\n\n+/): the text is cut at every maximal run of two or more
\* newlines; a run at either end leaves an empty first or last piece.
RunStarts(s) ==
    {i \in 1..(Len(s) - 1) :
        /\ s[i] = NL /\ s[i + 1] = NL
        /\ (i = 1 \/ s[i - 1] # NL)}

RunEnd(s, i) ==
    SetMin({j \in (i + 1)..Len(s) :
              /\ \A k \in i..j : s[k] = NL
              /\ (j = Len(s) \/ s[j + 1] # NL)})

RECURSIVE SplitFrom(_, _)
SplitFrom(s, from) ==
    LET starts == {i \in RunStarts(s) : i >= from}
    IN  IF starts = {} THEN <<SubSeq(s, from, Len(s))>>
        ELSE LET i == SetMin(starts)
             IN  <<SubSeq(s, from, i - 1)>> \o SplitFrom(s, RunEnd(s, i) + 1)

SplitParagraphs(s) == SplitFrom(s, 1)

\* the loop body of chunkText: st = [chunks, buffer, index]
ChunkStep(st, para) ==
    IF Len(st.buffer) + Len(para) > chunkSize /\ Len(st.buffer) > 0
    THEN [chunks |-> Append(st.chunks, [content |-> Trim(st.buffer), index |-> st.index]),
          buffer |-> SliceLast(st.buffer, overlap) \o <<NL, NL>> \o para,
          index  |-> st.index + 1]
    ELSE [st EXCEPT !.buffer =
             st.buffer \o (IF st.buffer # <<>> THEN <<NL, NL>> ELSE <<>>) \o para]

RECURSIVE ChunkLoop(_, _)
ChunkLoop(st, paras) ==
    IF paras = <<>> THEN st
    ELSE ChunkLoop(ChunkStep(st, Head(paras)), Tail(paras))

\* the final flush of chunkText
ChunkFlush(st) ==
    IF Trim(st.buffer) # <<>>
    THEN Append(st.chunks, [content |-> Trim(st.buffer), index |-> st.index])
    ELSE st.chunks

chunkText(text) ==
    IF Trim(text) = <<>> THEN <<>>
    ELSE ChunkFlush(ChunkLoop([chunks |-> <<>>, buffer |-> <<>>, index |-> 0],
                              SplitParagraphs(text)))

(***************************************************************************)
(* SqlService: the schema filter                                           *)
(***************************************************************************)
MAX_TABLES == 15

LowerLetters ==
    <<"a", "b", "c", "d", "e", "f", "g", "h", "i", "j", "k", "l", "m",
      "n", "o", "p", "q", "r", "s", "t", "u", "v", "w", "x", "y", "z">>
UpperLetters ==
    <<"A", "B", "C", "D", "E", "F", "G", "H", "I", "J", "K", "L", "M",
      "N", "O", "P", "Q", "R", "S", "T", "U", "V", "W", "X", "Y", "Z">>
DigitChars == <<"0", "1", "2", "3", "4", "5", "6", "7", "8", "9">>

\* the accented letters of the model's alphabet, written as the letter
\* followed by "_", and the letter NFD leaves of each once the combining
\* marks U+0300..U+036F are removed
AccentBase(c) ==
    CASE c = "a_" -> "a" [] c = "e_" -> "e" [] c = "i_" -> "i"
      [] c = "o_" -> "o" [] c = "u_" -> "u" [] c = "n_" -> "n"
      [] c = "A_" -> "A" [] c = "E_" -> "E" [] c = "O_" -> "O"
      [] OTHER -> c

\* String.prototype.toLowerCase, one character
LowerChar(c) ==
    IF c \in Range(UpperLetters)
    THEN LowerLetters[CHOOSE i \in 1..26 : UpperLetters[i] = c]
    ELSE CASE c = "A_" -> "a_" [] c = "E_" -> "e_" [] c = "O_" -> "o_"
           [] OTHER -> c

ToLower(s) == [i \in 1..Len(s) |-> LowerChar(s[i])]

\* s.normalize('NFD').replace(/[U+0300-U+036F]/g, '').toLowerCase()
Unaccent(s) == [i \in 1..Len(s) |-> LowerChar(AccentBase(s[i]))]

\* s.split(/\s+/) restricted to its non-empty pieces: the maximal runs of
\* characters that are not white space (the empty pieces a leading or
\* trailing run leaves are dropped by every caller's length filter)
WordStarts(s) ==
    {i \in 1..Len(s) : ~IsSpace(s[i]) /\ (i = 1 \/ IsSpace(s[i - 1]))}

WordEnd(s, i) ==
    SetMin({j \in i..Len(s) : j = Len(s) \/ IsSpace(s[j + 1])})

RECURSIVE WordsFrom(_, _)
WordsFrom(s, from) ==
    LET starts == {i \in WordStarts(s) : i >= from}
    IN  IF starts = {} THEN <<>>
        ELSE LET i == SetMin(starts)
             IN  <<SubSeq(s, i, WordEnd(s, i))>> \o WordsFrom(s, WordEnd(s, i) + 1)

SplitWords(s) == WordsFrom(s, 1)

\* the stop words of extractKeywords
stopWords ==
    {<<"e", "l">>, <<"l", "a">>, <<"l", "o", "s">>, <<"l", "a", "s">>,
     <<"u", "n">>, <<"u", "n", "a">>, <<"u", "n", "o", "s">>, <<"u", "n", "a", "s">>,
     <<"d", "e">>, <<"d", "e", "l">>, <<"e", "n">>, <<"c", "o", "n">>,
     <<"p", "o", "r">>, <<"p", "a", "r", "a">>, <<"a", "l">>, <<"a">>,
     <<"y">>, <<"o">>, <<"q", "u", "e">>, <<"s", "e">>,
     <<"e", "s">>, <<"s", "o", "n">>, <<"h", "a", "y">>, <<"f", "u", "e">>,
     <<"c", "o", "m", "o">>, <<"m", "a", "s">>, <<"p", "e", "r", "o">>, <<"s", "i">>,
     <<"n", "o">>, <<"m", "e">>, <<"t", "e">>, <<"l", "e">>,
     <<"l", "o">>, <<"s", "u">>, <<"s", "u", "s">>, <<"m", "i">>,
     <<"m", "i", "s">>, <<"t", "u">>, <<"t", "u", "s">>, <<"e", "s", "t", "e">>,
     <<"e", "s", "t", "a">>, <<"e", "s", "t", "o", "s">>, <<"e", "s", "t", "a", "s">>, <<"e", "s", "e">>,
     <<"e", "s", "a">>, <<"c", "u", "a", "l">>, <<"c", "u", "a", "l", "e", "s">>, <<"c", "u", "a", "n", "t", "o">>,
     <<"c", "u", "a", "n", "t", "o", "s">>, <<"c", "u", "a", "n", "t", "a", "s">>, <<"q", "u", "i", "e", "r", "o">>, <<"s", "a", "b", "e", "r">>,
     <<"d", "e", "c", "i", "m", "e">>, <<"m", "o", "s", "t", "r", "a", "m", "e">>, <<"d", "a", "m", "e">>, <<"t", "i", "e", "n", "e">>,
     <<"t", "i", "e", "n", "e", "n">>, <<"t", "e", "n", "e", "r">>, <<"h", "a", "c", "e", "r">>, <<"h", "i", "z", "o">>,
     <<"t", "o", "d", "o", "s">>, <<"t", "o", "d", "a", "s">>, <<"t", "o", "d", "o">>, <<"t", "o", "d", "a">>,
     <<"c", "a", "d", "a">>, <<"o", "t", "r", "o">>}

\* the suffix list of getStems, in the order the code tries it
suffixes ==
    <<<<"i", "o", "n", "e", "s">>, <<"c", "i", "o", "n">>, <<"d", "o", "r", "e", "s">>, <<"d", "o", "r", "a", "s">>,
      <<"o", "r", "e", "s">>, <<"o", "r", "a", "s">>, <<"e", "r", "o", "s">>, <<"e", "r", "a", "s">>,
      <<"a", "j", "e", "s">>, <<"a", "j", "e", "s">>, <<"a", "d", "o", "s">>, <<"a", "d", "a", "s">>,
      <<"i", "d", "o", "s">>, <<"i", "d", "a", "s">>, <<"b", "l", "e", "s">>, <<"m", "e", "n", "t", "e">>,
      <<"a", "n", "d", "o">>, <<"e", "n", "d", "o">>, <<"o", "r", "e", "s">>, <<"o", "r", "a", "s">>,
      <<"a", "j", "e", "s">>, <<"i", "e", "s">>, <<"e", "s">>, <<"o", "s">>,
      <<"a", "s">>, <<"o", "r">>, <<"e", "r">>, <<"a", "r">>,
      <<"i", "r">>, <<"a", "l">>, <<"o", "n">>, <<"a">>,
      <<"o">>, <<"s">>>>

\* getStems: every listed suffix the word ends with, stripped when at least
\* 4 characters are left; then, for a word longer than 5, every prefix from
\* length - 1 down to 4
SuffixStems(w) ==
    {SubSeq(w, 1, Len(w) - Len(suffixes[i])) :
        i \in {j \in 1..Len(suffixes) :
                 EndsWith(w, suffixes[j]) /\ Len(w) - Len(suffixes[j]) >= 4}}

\* truncations that stop at 5 characters
PrefixStemsFromFive(w) ==
    IF Len(w) > 5 THEN {SubSeq(w, 1, n) : n \in 5..(Len(w) - 1)} ELSE {}

PrefixStems(w) ==
    IF Len(w) > 5 THEN {SubSeq(w, 1, n) : n \in 4..(Len(w) - 1)} ELSE {}

getStems(w) == SuffixStems(w) \cup PrefixStems(w)

\* extractKeywords: the Set the code builds (its order does not matter to
\* the scoring, which sums over the keywords)
KeywordWords(message) ==
    LET normalized == Unaccent(message)
        cleaned == [i \in 1..Len(normalized) |->
                      IF normalized[i] \in Range(LowerLetters) \cup Range(DigitChars)
                         \/ IsSpace(normalized[i])
                      THEN normalized[i] ELSE SP]
    IN  {w \in Range(SplitWords(cleaned)) : Len(w) > 2 /\ w \notin stopWords}

extractKeywords(message) ==
    LET words == KeywordWords(message)
    IN  words \cup {st \in UNION {getStems(w) : w \in words} : Len(st) >= 4}

\* (description || ''): a description is a text, empty when the
\* catalog has none (null and '' are told apart nowhere in the service)
OrEmpty(s) == s

\* the score one keyword adds to one table
RECURSIVE ColumnsScore(_, _)
ColumnsScore(cols, kw) ==
    IF cols = <<>> THEN 0
    ELSE (IF Includes(ToLower(Head(cols).name), kw) THEN 3 ELSE 0)
         + (IF Includes(Unaccent(OrEmpty(Head(cols).description)), kw) THEN 5 ELSE 0)
         + ColumnsScore(Tail(cols), kw)

KeywordScore(table, kw) ==
    (IF Includes(Unaccent(OrEmpty(table.description)), kw) THEN 15 ELSE 0)
    + (IF Includes(ToLower(table.name), kw) THEN 10 ELSE 0)
    + ColumnsScore(table.columns, kw)

\* a scoring that counts each field once, however many keywords it contains
RECURSIVE ColumnsScoreOnce(_, _)
ColumnsScoreOnce(cols, kws) ==
    IF cols = <<>> THEN 0
    ELSE (IF \E kw \in kws : Includes(ToLower(Head(cols).name), kw) THEN 3 ELSE 0)
         + (IF \E kw \in kws : Includes(Unaccent(Head(cols).description), kw)
            THEN 5 ELSE 0)
         + ColumnsScoreOnce(Tail(cols), kws)

TableScoreOnce(table, kws) ==
    (IF \E kw \in kws : Includes(Unaccent(table.description), kw) THEN 15 ELSE 0)
    + (IF \E kw \in kws : Includes(ToLower(table.name), kw) THEN 10 ELSE 0)
    + ColumnsScoreOnce(table.columns, kws)

RECURSIVE TableScore(_, _)
TableScore(table, kws) ==
    IF kws = {} THEN 0
    ELSE LET kw == CHOOSE k \in kws : TRUE
         IN  KeywordScore(table, kw) + TableScore(table, kws \ {kw})

\* Array.prototype.sort((a, b) => b.score - a.score): stable, descending
SortByScoreDesc(s) ==
    LET Before(a, b) == a.score > b.score
    IN  SortSeq(s, Before)

\* the characters the regex of KnowledgeService.tokenize keeps: \w and
\* the accented lower-case letters (line 101)
TokenChars ==
    Range(LowerLetters) \cup Range(UpperLetters) \cup Range(DigitChars)
    \cup {"_", "a_", "e_", "i_", "o_", "u_", "n_"}

\* KnowledgeService.tokenize (lines 97-104)
tokenize(text) ==
    LET lower == ToLower(text)
        cleaned == <<>> \o [i \in 1..Len(lower) |->
                      IF lower[i] \in TokenChars \/ IsSpace(lower[i]) THEN lower[i] ELSE SP]
        words == SplitWords(cleaned)
    IN  KeepIdx(words, {i \in 1..Len(words) : Len(words[i]) > 2})

\* the score of one chunk (lines 72-81): 2 for every pair of equal tokens,
\* 1 for every other pair in which one token contains the other
PairScore(qt, ct) ==
    IF ct = qt THEN 2
    ELSE IF Includes(ct, qt) \/ Includes(qt, ct) THEN 1
    ELSE 0

RECURSIVE SumOver(_, _, _)
SumOver(qt, chunkTokens, j) ==
    IF j > Len(chunkTokens) THEN 0
    ELSE PairScore(qt, chunkTokens[j]) + SumOver(qt, chunkTokens, j + 1)

RECURSIVE LexScore(_, _, _)
LexScore(queryTokens, chunkTokens, i) ==
    IF i > Len(queryTokens) THEN 0
    ELSE SumOver(queryTokens[i], chunkTokens, 1) + LexScore(queryTokens, chunkTokens, i + 1)

\* a selection that takes the top 4 whatever they score
kRelevantNoThreshold(chunks, queryTokens) ==
    IF chunks = <<>> \/ queryTokens = <<>> THEN <<>>
    ELSE SliceFirst(SortByScoreDesc([i \in 1..Len(chunks) |->
                       [content |-> chunks[i].content, index |-> chunks[i].index,
                        score |-> LexScore(queryTokens, tokenize(chunks[i].content), 1)]]), 4)

\* retrieveContext (lines 64-90): the chunks returned, none for null.  The
\* score is kept as the sum: the code divides it by the number of query
\* tokens, the same for every chunk, so the order is that of the sums and
\* the test `score >= 1` is `sum >= number of query tokens`.
kRelevant(chunks, queryTokens) ==
    IF chunks = <<>> \/ queryTokens = <<>> THEN <<>>
    ELSE LET scored == [i \in 1..Len(chunks) |->
                          [content |-> chunks[i].content, index |-> chunks[i].index,
                           score |-> LexScore(queryTokens, tokenize(chunks[i].content), 1)]]
             top == SliceFirst(SortByScoreDesc(scored), 4)
         IN  KeepIdx(top, {i \in 1..Len(top) : top[i].score >= Len(queryTokens)})

\* the tables getFilteredSchema lists, for a schema of at least one table
RelevantTables(tables, userMessage) ==
    IF Len(tables) > MAX_TABLES /\ userMessage # <<>>
    THEN LET kws == extractKeywords(userMessage)
             scored == [i \in 1..Len(tables) |->
                          [table |-> tables[i], score |-> TableScore(tables[i], kws)]]
             kept == KeepIdx(scored, {i \in 1..Len(scored) : scored[i].score > 0})
             sorted == SliceFirst(SortByScoreDesc(kept), MAX_TABLES)
         IN  [i \in 1..Len(sorted) |-> sorted[i].table]
    ELSE IF Len(tables) > MAX_TABLES THEN SliceFirst(tables, MAX_TABLES)
    ELSE tables

\* template-literal formatting of a count
RECURSIVE IntToStr(_)
IntToStr(n) ==
    IF n < 10 THEN <<DigitChars[n + 1]>>
    ELSE IntToStr(n \div 10) \o <<DigitChars[(n % 10) + 1]>>

ColumnText(col) ==
    col.name \o <<SP>> \o col.dataType
    \o (IF col.isPrimaryKey THEN <<SP, "P", "K">> ELSE <<>>)
    \o (IF col.description # <<>>
        THEN <<SP, "\"">> \o col.description \o <<"\"">> ELSE <<>>)

TableLine(table) ==
    table.name
    \o (IF table.description # <<>>
        THEN <<SP, "-", "-", SP>> \o table.description ELSE <<>>)
    \o <<":", SP>>
    \o Join([i \in 1..Len(table.columns) |-> ColumnText(table.columns[i])], <<",", SP>>)

HeaderLine(dbName, listed, total) ==
    <<"D", "B", ":">> \o dbName \o <<SP, "(">> \o IntToStr(listed) \o <<"/">>
    \o IntToStr(total) \o <<SP, "t", "a", "b", "l", "a", "s", ")">>

ConnIds == {"c1", "c2"}
\* schemaCache.get(id): nothing cached, or the tables read
NoSchema == [cached |-> FALSE, tables |-> <<>>]
Cached(tables) == [cached |-> TRUE, tables |-> tables]
\* the null getFilteredSchema returns
NoFilteredSchema == [some |-> FALSE, listed |-> <<>>, total |-> 0, text |-> <<>>]

\* connections.get(id)?.database ?? 'db'
DbName(conn) == IF conn = "c1" THEN <<"e", "r", "p">> ELSE <<"d", "b">>

\* getFilteredSchema: null, or the text, with the tables it lists; the
\* message is a text, empty when the caller passes none
getFilteredSchema(active, schemas, userMessage) ==
    IF active = Null THEN NoFilteredSchema
    ELSE IF ~schemas[active].cached THEN NoFilteredSchema
    ELSE IF schemas[active].tables = <<>> THEN NoFilteredSchema
    ELSE LET tables == schemas[active].tables
             relevant == RelevantTables(tables, userMessage)
         IN  [some |-> TRUE,
              listed |-> relevant,
              total  |-> Len(tables),
              text   |-> Join(<<HeaderLine(DbName(active), Len(relevant), Len(tables))>>
                              \o [i \in 1..Len(relevant) |-> TableLine(relevant[i])],
                              <<NL>>)]

(***************************************************************************)
(* The environment shared by RagService and MemoryRagService: the Ollama   *)
(* embedding backend, the knowledge directory and the vector cache file.   *)
(***************************************************************************)
embeddingModel == "nomic-embed-text"

\* the states of the backend: not running, running without the embedding
\* model, running with it
OllamaStates == {"down", "nomodel", "up"}

\* checkOllama: true only when /api/tags answers and lists the model; a
\* refused connection, a timeout or a missing model all give false
checkOllama(backend) == backend = "up"

\* the names a knowledge directory of the model may hold, as readdirSync
\* lists them
FileOrder == <<"a.txt", "b.md", "c.pdf">>
Files == Range(FileOrder)

\* f.endsWith('.txt') || f.endsWith('.md'), on the model's names
IsCorpusFile(f) == f \in {"a.txt", "b.md"}

EmptyMap == [f \in {} |-> 0]
MapPut(m, k, v) == [x \in DOMAIN m \cup {k} |-> IF x = k THEN v ELSE m[x]]

\* The knowledge directory: whether it exists, and a function from the names
\* present to [mtime, ver] (ver stands for the content).
NoDir == [exists |-> FALSE, files |-> EmptyMap]
Dir(files) == [exists |-> TRUE, files |-> files]

\* readdirSync(knowledgePath).filter(...): the corpus files of a directory,
\* in listing order
CorpusFiles(dir) ==
    KeepIdx(FileOrder,
            {i \in 1..Len(FileOrder) :
                FileOrder[i] \in DOMAIN dir.files /\ IsCorpusFile(FileOrder[i])})

\* RecursiveCharacterTextSplitter.splitText (an external library): the
\* chunks of a file depend on its content alone; a.txt has more chunks than
\* one embedding batch holds
NumChunks(f) == IF f = "a.txt" THEN 11 ELSE 1
splitText(f, ver) == [k \in 1..NumChunks(f) |-> [content |-> <<f, ver, k>>, source |-> f]]

\* The embedding model, as a fixed function of the text.  The vectors of
\* the model have integer norms (1 or 5), so every cosine is a multiple of
\* 1/25 and is computed exactly.
VecTable == <<<<1, 0>>, <<4, 3>>, <<3, 4>>, <<0, 1>>>>
EmbedChunk(content) == VecTable[((content[2] + content[3]) % Len(VecTable)) + 1]

batchSize == 10

\* entries of a complete pass over a directory
RECURSIVE ChunksOf(_, _)
ChunksOf(dir, files) ==
    IF files = <<>> THEN <<>>
    ELSE splitText(Head(files), dir.files[Head(files)].ver) \o ChunksOf(dir, Tail(files))

EmbedAll(chunks) ==
    [i \in 1..Len(chunks) |->
        [content |-> chunks[i].content,
         embedding |-> EmbedChunk(chunks[i].content),
         source |-> chunks[i].source]]

MtimesOf(dir, files) == [f \in Range(files) |-> dir.files[f].mtime]

\* the cache file saveToCache writes after a complete pass over dir
CacheOf(dir, model) ==
    [kind |-> "json",
     entries |-> EmbedAll(ChunksOf(dir, CorpusFiles(dir))),
     indexedFiles |-> MtimesOf(dir, CorpusFiles(dir)),
     embeddingModel |-> model]

\* no cache file, and a cache file JSON.parse rejects
NoCache == [kind |-> "none", entries |-> <<>>, indexedFiles |-> EmptyMap,
            embeddingModel |-> ""]
Corrupt == [kind |-> "corrupt", entries |-> <<>>, indexedFiles |-> EmptyMap,
            embeddingModel |-> ""]

(***************************************************************************)
(* RagService                                                              *)
(***************************************************************************)
\* the number of requests ('rag:reindex', retrieveContext) one behaviour makes
MaxRagOps == 2
\* the largest modification time a file reaches
MaxMtime == 2

Callers == {"init", "g1", "g2"}
GatewayCallers == {"g1", "g2"}

IdleCall ==
    [pc |-> "idle", files |-> <<>>, fi |-> 0, chunks |-> <<>>,
     newFiles |-> EmptyMap, bi |-> 0, newEntries |-> <<>>, res |-> Null]

PassPcs == {"read", "embed", "save"}

\* an availability test that ignores the number of entries
isAvailableNoEntries(connected, entries) == connected

\* isAvailable()
isAvailable(connected, entries) == connected /\ Len(entries) > 0

\* the validity test of loadFromCache on a parsed cache (lines 339-370)
CacheChecksPass(cache, dir) ==
    /\ cache.embeddingModel = embeddingModel
    /\ IF dir.exists
       THEN LET currentFiles == CorpusFiles(dir)
            IN  /\ Len(currentFiles) = Cardinality(DOMAIN cache.indexedFiles)
                /\ \A f \in Range(currentFiles) :
                      /\ f \in DOMAIN cache.indexedFiles
                      /\ cache.indexedFiles[f] # 0
                      /\ cache.indexedFiles[f] = dir.files[f].mtime
       ELSE TRUE

\* loadFromCache on what readFile returned: [installed, loaded]
loadFromCache(raw, dir) ==
    IF raw.kind = "corrupt" THEN [installed |-> FALSE, loaded |-> FALSE]
    ELSE IF ~CacheChecksPass(raw, dir) THEN [installed |-> FALSE, loaded |-> FALSE]
    ELSE [installed |-> TRUE, loaded |-> Len(raw.entries) > 0]

\* indexDocuments from `this.indexing = true` to its first await (lines
\* 153-195), run by caller c when entries and indexedFiles hold e and m
Prologue(c, e, m) ==
    IF ~fsDir.exists
    THEN /\ fsDir' = Dir(EmptyMap)
         /\ indexing' = FALSE
         /\ idx' = [idx EXCEPT ![c] = [IdleCall EXCEPT !.res = "created"]]
         /\ ragEntries' = e
         /\ indexedFiles' = m
    ELSE IF CorpusFiles(fsDir) = <<>>
    THEN /\ ragEntries' = <<>>
         /\ indexedFiles' = EmptyMap
         /\ indexing' = FALSE
         /\ idx' = [idx EXCEPT ![c] = [IdleCall EXCEPT !.res = "nofiles"]]
         /\ UNCHANGED fsDir
    ELSE /\ indexing' = TRUE
         /\ idx' = [idx EXCEPT ![c] =
                       [IdleCall EXCEPT !.pc = "read", !.files = CorpusFiles(fsDir), !.fi = 1]]
         /\ ragEntries' = e
         /\ indexedFiles' = m
         /\ UNCHANGED fsDir

\* the guard of indexDocuments (lines 137-139)
AlreadyIndexing(flag) == flag

\* indexDocuments called when the probe is not needed (lines 137-153)
IndexEntry(c, e, m) ==
    IF AlreadyIndexing(indexing)
    THEN /\ idx' = [idx EXCEPT ![c] = [IdleCall EXCEPT !.res = "rejected"]]
         /\ ragEntries' = e
         /\ indexedFiles' = m
         /\ UNCHANGED <<fsDir, indexing>>
    ELSE Prologue(c, e, m)

\* onModuleInit: initializeAsync runs to its first await, the probe
RagOnModuleInit ==
    /\ initPc = "new"
    /\ initPc' = "probe"
    /\ UNCHANGED <<ollamaConnected, embeddings, ragEntries, indexedFiles, lastIndexed,
                   indexing, idx, rc, loadEv, ragOps>>
    /\ UNCHANGED <<envVars, kVars, gwVars, sqlVars, memVars>>

\* initializeAsync after the probe (lines 70-94): not connected -> stop;
\* no cache file -> indexDocuments(); else await the read of the cache file
InitProbeReturn ==
    /\ initPc = "probe"
    /\ ollamaConnected' = checkOllama(ollama)
    /\ IF ~checkOllama(ollama)
       THEN /\ initPc' = "done"
            /\ UNCHANGED <<embeddings, fsDir, ragEntries, indexedFiles, indexing, idx>>
       ELSE /\ embeddings' = TRUE
            /\ IF cacheFile.kind = "none"
               THEN /\ initPc' = "done"
                    /\ IndexEntry("init", ragEntries, indexedFiles)
               ELSE /\ initPc' = "loadCache"
                    /\ UNCHANGED <<fsDir, ragEntries, indexedFiles, indexing, idx>>
    /\ UNCHANGED <<lastIndexed, rc, loadEv, ragOps>>
    /\ UNCHANGED <<ollama, now, cacheFile, envOps, kVars, gwVars, sqlVars, memVars>>

\* loadFromCache once the cache file is read (lines 337-377), then, when it
\* did not load, indexDocuments() up to its first await
InitLoadCache ==
    /\ initPc = "loadCache"
    /\ initPc' = "done"
    /\ LET raw == IF cacheFile.kind = "none" THEN Corrupt ELSE cacheFile
           r == loadFromCache(raw, fsDir)
           e == IF r.installed THEN raw.entries ELSE ragEntries
           m == IF r.installed THEN raw.indexedFiles ELSE indexedFiles
       IN  /\ loadEv' = [ran |-> TRUE, installed |-> r.installed, accepted |-> r.loaded,
                         cache |-> raw, dir |-> fsDir]
           /\ lastIndexed' = IF r.installed THEN now ELSE lastIndexed
           /\ IF r.loaded
              THEN /\ ragEntries' = e
                   /\ indexedFiles' = m
                   /\ UNCHANGED <<fsDir, indexing, idx>>
              ELSE IndexEntry("init", e, m)
    /\ UNCHANGED <<ollamaConnected, embeddings, rc, ragOps>>
    /\ UNCHANGED <<ollama, now, cacheFile, envOps, kVars, gwVars, sqlVars, memVars>>

\* a 'rag:reindex' request: indexDocuments runs to its first await
IndexCall(c) ==
    /\ initPc # "new"
    /\ idx[c].pc = "idle"
    /\ ragOps < MaxRagOps
    /\ ragOps' = ragOps + 1
    /\ IF ~AlreadyIndexing(indexing) /\ (~ollamaConnected \/ ~embeddings)
       THEN /\ idx' = [idx EXCEPT ![c] = [IdleCall EXCEPT !.pc = "probe"]]
            /\ UNCHANGED <<fsDir, ragEntries, indexedFiles, indexing>>
       ELSE IndexEntry(c, ragEntries, indexedFiles)
    /\ UNCHANGED <<ollamaConnected, embeddings, lastIndexed, initPc, rc, loadEv>>
    /\ UNCHANGED <<ollama, now, cacheFile, envOps, kVars, gwVars, sqlVars, memVars>>

\* the re-check of the backend returns (lines 143-153)
IndexProbeReturn(c) ==
    /\ idx[c].pc = "probe"
    /\ ollamaConnected' = checkOllama(ollama)
    /\ IF ~checkOllama(ollama)
       THEN /\ idx' = [idx EXCEPT ![c] = [IdleCall EXCEPT !.res = "unavailable"]]
            /\ UNCHANGED <<embeddings, fsDir, ragEntries, indexedFiles, indexing>>
       ELSE /\ embeddings' = TRUE
            /\ Prologue(c, ragEntries, indexedFiles)
    /\ UNCHANGED <<lastIndexed, initPc, rc, loadEv, ragOps>>
    /\ UNCHANGED <<ollama, now, cacheFile, envOps, kVars, gwVars, sqlVars, memVars>>

\* a catch block that publishes the entries embedded so far
IndexFailPartial(c) ==
    /\ indexing' = FALSE
    /\ idx' = [idx EXCEPT ![c] = [IdleCall EXCEPT !.res = "error"]]
    /\ ragEntries' = idx[c].newEntries
    /\ indexedFiles' = idx[c].newFiles
    /\ UNCHANGED lastIndexed

\* the catch block of indexDocuments (lines 238-242)
IndexFail(c) ==
    /\ indexing' = FALSE
    /\ idx' = [idx EXCEPT ![c] = [IdleCall EXCEPT !.res = "error"]]
    /\ UNCHANGED <<ragEntries, indexedFiles, lastIndexed>>

\* the commit of a pass (lines 227-232): the state is replaced and the cache
\* text is built; the write of the cache file is awaited
IndexCommit(c, newEntries, newFiles) ==
    /\ ragEntries' = newEntries
    /\ indexedFiles' = newFiles
    /\ lastIndexed' = now
    /\ indexing' = indexing
    /\ idx' = [idx EXCEPT ![c] =
                  [IdleCall EXCEPT !.pc = "save", !.newEntries = newEntries,
                                   !.newFiles = newFiles]]

\* one turn of the file loop (lines 193-203): readFile, stat, splitText of
\* the next file; a file that is gone makes readFile throw
IndexReadFile(c) ==
    /\ idx[c].pc = "read"
    /\ LET f == idx[c].files[idx[c].fi]
       IN  IF f \notin DOMAIN fsDir.files
           THEN IndexFail(c)
           ELSE LET chunks == idx[c].chunks \o splitText(f, fsDir.files[f].ver)
                    newFiles == MapPut(idx[c].newFiles, f, fsDir.files[f].mtime)
                IN  IF idx[c].fi < Len(idx[c].files)
                    THEN /\ idx' = [idx EXCEPT ![c].fi = @ + 1, ![c].chunks = chunks,
                                               ![c].newFiles = newFiles]
                         /\ UNCHANGED <<ragEntries, indexedFiles, lastIndexed, indexing>>
                    ELSE IF Len(chunks) = 0
                    THEN IndexCommit(c, <<>>, newFiles)
                    ELSE /\ idx' = [idx EXCEPT ![c].pc = "embed", ![c].chunks = chunks,
                                               ![c].newFiles = newFiles, ![c].bi = 0]
                         /\ UNCHANGED <<ragEntries, indexedFiles, lastIndexed, indexing>>
    /\ UNCHANGED <<ollamaConnected, embeddings, initPc, rc, loadEv, ragOps>>
    /\ UNCHANGED <<envVars, kVars, gwVars, sqlVars, memVars>>

\* a batch loop that pushes each embedded batch into the entries in use
IndexEmbedBatchInPlace(c) ==
    /\ idx[c].pc = "embed"
    /\ IF ollama # "up"
       THEN IndexFail(c)
       ELSE LET batch == SubSeq(idx[c].chunks, idx[c].bi + 1,
                                IF idx[c].bi + batchSize < Len(idx[c].chunks)
                                THEN idx[c].bi + batchSize ELSE Len(idx[c].chunks))
                newEntries == idx[c].newEntries \o EmbedAll(batch)
            IN  IF idx[c].bi + batchSize < Len(idx[c].chunks)
                THEN /\ idx' = [idx EXCEPT ![c].bi = @ + batchSize,
                                           ![c].newEntries = newEntries]
                     /\ ragEntries' = newEntries
                     /\ UNCHANGED <<indexedFiles, lastIndexed, indexing>>
                ELSE IndexCommit(c, newEntries, idx[c].newFiles)
    /\ UNCHANGED <<ollamaConnected, embeddings, initPc, rc, loadEv, ragOps>>
    /\ UNCHANGED <<envVars, kVars, gwVars, sqlVars, memVars>>

\* one turn of the batch loop (lines 213-225): embedDocuments of the next
\* batch answers, or throws when the backend does not answer
IndexEmbedBatch(c) ==
    /\ idx[c].pc = "embed"
    /\ IF ollama # "up"
       THEN IndexFail(c)
       ELSE LET batch == SubSeq(idx[c].chunks, idx[c].bi + 1,
                                IF idx[c].bi + batchSize < Len(idx[c].chunks)
                                THEN idx[c].bi + batchSize ELSE Len(idx[c].chunks))
                newEntries == idx[c].newEntries \o EmbedAll(batch)
            IN  IF idx[c].bi + batchSize < Len(idx[c].chunks)
                THEN /\ idx' = [idx EXCEPT ![c].bi = @ + batchSize,
                                           ![c].newEntries = newEntries]
                     /\ UNCHANGED <<ragEntries, indexedFiles, lastIndexed, indexing>>
                ELSE IndexCommit(c, newEntries, idx[c].newFiles)
    /\ UNCHANGED <<ollamaConnected, embeddings, initPc, rc, loadEv, ragOps>>
    /\ UNCHANGED <<envVars, kVars, gwVars, sqlVars, memVars>>

\* saveToCache returns (lines 306-328, 234-237): the text built at the commit
\* is on disk, or the write failed and was logged; the pass ends
IndexSaveDone(c) ==
    /\ idx[c].pc = "save"
    /\ \E ok \in BOOLEAN :
          cacheFile' = IF ok THEN [kind |-> "json",
                                   entries |-> idx[c].newEntries,
                                   indexedFiles |-> idx[c].newFiles,
                                   embeddingModel |-> embeddingModel]
                       ELSE cacheFile
    /\ indexing' = FALSE
    /\ idx' = [idx EXCEPT ![c] = [IdleCall EXCEPT !.res = "indexed"]]
    /\ UNCHANGED <<ollamaConnected, embeddings, ragEntries, indexedFiles, lastIndexed,
                   initPc, rc, loadEv, ragOps>>
    /\ UNCHANGED <<ollama, now, fsDir, envOps, kVars, gwVars, sqlVars, memVars>>

\* cosineSimilarity of RagService (lines 285-302), as a percentage; exact
\* for vectors of integer norm
ISqrt(n) == CHOOSE r \in 0..n : r * r <= n /\ (r + 1) * (r + 1) > n

RECURSIVE Dot(_, _)
Dot(a, b) == IF a = <<>> THEN 0 ELSE Head(a) * Head(b) + Dot(Tail(a), Tail(b))

ragCosineSimilarity(a, b) ==
    IF Len(a) # Len(b) THEN 0
    ELSE LET denominator == ISqrt(Dot(a, a)) * ISqrt(Dot(b, b))
         IN  IF denominator = 0 THEN 0 ELSE (100 * Dot(a, b)) \div denominator

(***************************************************************************)
(* cosineSimilarity in the arithmetic the program runs in: IEEE-754        *)
(* binary64, round to nearest, ties to even.  A natural number is the set  *)
(* of the positions of its 1 bits; a positive double is m * 2^e with m of  *)
(* exactly 53 bits (bit 52 set).  The sums of the loop (lines 288-296) are *)
(* small integers and exact.                                               *)
(***************************************************************************)
BXor(x, y) == (x \ y) \cup (y \ x)
BShl(x, k) == {i + k : i \in x}

RECURSIVE BAdd(_, _)
BAdd(x, y) == IF y = {} THEN x ELSE BAdd(BXor(x, y), BShl(x \cap y, 1))

\* x - y, for x >= y
RECURSIVE BSub(_, _)
BSub(x, y) == IF y = {} THEN x ELSE BSub(BXor(x, y), BShl(y \ x, 1))

BLeq(x, y) == x = y \/ SetMax(BXor(x, y)) \in y

RECURSIVE BOfInt(_)
BOfInt(n) ==
    IF n = 0 THEN {}
    ELSE (IF n % 2 = 1 THEN {0} ELSE {}) \cup BShl(BOfInt(n \div 2), 1)

RECURSIVE BMul(_, _)
BMul(x, y) ==
    IF y = {} THEN {}
    ELSE LET i == CHOOSE j \in y : TRUE
         IN  BAdd(BShl(x, i), BMul(x, y \ {i}))

\* the integer square root of N, bit by bit from bit b down: r is the root
\* so far and rsq its square
RECURSIVE SqrtLoop(_, _, _, _)
SqrtLoop(N, r, rsq, b) ==
    IF b < 0 THEN [val |-> r, exact |-> rsq = N]
    ELSE \* (r + 2^b)^2 = r^2 + r * 2^(b+1) + 2^(2b)
         LET t == BAdd(BAdd(rsq, BShl(r, b + 1)), {2 * b})
         IN  IF BLeq(t, N) THEN SqrtLoop(N, r \cup {b}, t, b - 1)
             ELSE SqrtLoop(N, r, rsq, b - 1)

\* the quotient of N by D, bit by bit from bit b down
RECURSIVE DivLoop(_, _, _, _)
DivLoop(rem, D, q, b) ==
    IF b < 0 THEN [val |-> q, exact |-> rem = {}]
    ELSE IF BLeq(BShl(D, b), rem)
         THEN DivLoop(BSub(rem, BShl(D, b)), D, q \cup {b}, b - 1)
         ELSE DivLoop(rem, D, q, b - 1)

DoubleZero == [s |-> 0, m |-> {}, e |-> 0]
DoubleOne  == [s |-> 1, m |-> {52}, e |-> 0 - 52]

\* X * 2^e (X > 0, and a little more when sticky) rounded to 53 bits
Round53(sign, X, sticky, e) ==
    LET d == SetMax(X) - 52
    IN  IF d <= 0 THEN [s |-> sign, m |-> BShl(X, 0 - d), e |-> e + d]
        ELSE LET kept == {i - d : i \in {j \in X : j >= d}}
                 half == (d - 1) \in X
                 rest == sticky \/ \E i \in X : i < d - 1
                 m1 == IF half /\ (rest \/ 0 \in kept) THEN BAdd(kept, {0}) ELSE kept
             IN  IF 53 \in m1 THEN [s |-> sign, m |-> {52}, e |-> e + d + 1]
                 ELSE [s |-> sign, m |-> m1, e |-> e + d]

\* Math.sqrt of a non-negative integer
DoubleSqrt(n) ==
    IF n = 0 THEN DoubleZero
    ELSE LET r == SqrtLoop(BShl(BOfInt(n), 108), {}, {}, 57)
         IN  Round53(1, r.val, ~r.exact, 0 - 54)

\* the product of two non-negative doubles
DoubleMul(x, y) ==
    IF x.s = 0 \/ y.s = 0 THEN DoubleZero
    ELSE Round53(1, BMul(x.m, y.m), FALSE, x.e + y.e)

\* an integer divided by a positive double
DoubleDiv(n, y) ==
    IF n = 0 THEN DoubleZero
    ELSE LET q == DivLoop(BShl(BOfInt(IF n < 0 THEN 0 - n ELSE n), 108), y.m, {}, 60)
         IN  Round53(IF n < 0 THEN 0 - 1 ELSE 1, q.val, ~q.exact, 0 - 108 - y.e)

\* the vectors cosineSimilarity is applied to: up to MaxDim coordinates,
\* each an integer of magnitude at most MaxCoord
MaxDim == 2
MaxCoord == 1
\* the number of applications one behaviour makes
MaxCosine == 1

\* Math.sqrt on the sums of squares of those vectors, computed once
SqrtTable == <<>> \o [n \in 1..(MaxDim * MaxCoord * MaxCoord) |-> DoubleSqrt(n)]
MathSqrt(n) == IF n = 0 THEN DoubleZero ELSE SqrtTable[n]

\* the value a division by zero would give
DoubleNaN == [s |-> 0, m |-> {}, e |-> 1]

\* a cosineSimilarity that divides whatever the denominator
CosineNoZeroCheck(a, b) ==
    IF Len(a) # Len(b) THEN DoubleZero
    ELSE LET denominator == DoubleMul(MathSqrt(Dot(a, a)), MathSqrt(Dot(b, b)))
         IN  IF denominator = DoubleZero THEN DoubleNaN
             ELSE DoubleDiv(Dot(a, b), denominator)

\* RagService.cosineSimilarity (lines 285-302)
ragCosineDouble(a, b) ==
    IF Len(a) # Len(b) THEN DoubleZero
    ELSE LET denominator == DoubleMul(MathSqrt(Dot(a, a)), MathSqrt(Dot(b, b)))
         IN  IF denominator = DoubleZero THEN DoubleZero
             ELSE DoubleDiv(Dot(a, b), denominator)

\* MemoryRagService.cosineSimilarity (lines 416-433)
memCosineDouble(a, b) ==
    IF Len(a) # Len(b) \/ Len(a) = 0 THEN DoubleZero
    ELSE LET denominator == DoubleMul(MathSqrt(Dot(a, a)), MathSqrt(Dot(b, b)))
         IN  IF denominator = DoubleZero THEN DoubleZero
             ELSE DoubleDiv(Dot(a, b), denominator)

\* embedQuery of a user query
Queries == {"q1", "q2"}
EmbedQueryText(q) == IF q = "q1" THEN <<1, 0>> ELSE <<0, 1>>

\* a selection that takes the top 4 whatever their similarity
RagTopFour(entries, queryEmbedding) ==
    SliceFirst(SortByScoreDesc(
        [i \in 1..Len(entries) |->
            [content |-> entries[i].content, source |-> entries[i].source,
             score |-> ragCosineSimilarity(queryEmbedding, entries[i].embedding)]]), 4)

\* lines 257-278: score, sort, top 4, threshold 0.3, format
RagRelevant(entries, queryEmbedding) ==
    LET scored == [i \in 1..Len(entries) |->
                      [content |-> entries[i].content, source |-> entries[i].source,
                       score |-> ragCosineSimilarity(queryEmbedding, entries[i].embedding)]]
        top == SliceFirst(SortByScoreDesc(scored), 4)
    IN  KeepIdx(top, {i \in 1..Len(top) : top[i].score >= 30})

\* `[${r.source}]: ${r.content}`
ContextPart(r) == <<"[", r.source, "]: ", r.content>>

\* the null retrieveContext returns; a context has at least one part
NoContext == <<>>

\* what retrieveContext returns once the query embedding call has ended:
\* the try block's value, or the catch block's null when the call threw
RetrieveOutcome(embedOk, entries, queryEmbedding) ==
    IF ~embedOk THEN NoContext
    ELSE LET relevant == RagRelevant(entries, queryEmbedding)
         IN  IF relevant = <<>> THEN NoContext
             ELSE [i \in 1..Len(relevant) |-> ContextPart(relevant[i])]

IdleRc == [pc |-> "idle", q |-> Null, connected |-> FALSE, inst |-> FALSE, count |-> 0,
           called |-> FALSE, failed |-> FALSE, returned |-> FALSE, res |-> NoContext,
           used |-> <<>>, busy |-> FALSE]

\* some indexDocuments call is between its prologue and its commit
Building == \E c \in Callers : idx[c].pc \in {"read", "embed"}

\* retrieveContext up to its first await (lines 248-254)
RcCall(q) ==
    /\ initPc # "new"
    /\ rc.pc = "idle"
    /\ ragOps < MaxRagOps
    /\ ragOps' = ragOps + 1
    /\ LET seen == [IdleRc EXCEPT !.q = q, !.connected = ollamaConnected,
                                   !.inst = embeddings, !.count = Len(ragEntries)]
       IN  IF ~isAvailable(ollamaConnected, ragEntries) \/ ~embeddings
           THEN rc' = [seen EXCEPT !.returned = TRUE]
           ELSE rc' = [seen EXCEPT !.pc = "embed", !.called = TRUE]
    /\ UNCHANGED <<ollamaConnected, embeddings, ragEntries, indexedFiles, lastIndexed,
                   indexing, initPc, idx, loadEv>>
    /\ UNCHANGED <<envVars, kVars, gwVars, sqlVars, memVars>>

\* embedQuery answers or throws (lines 254-282)
RcReturn ==
    /\ rc.pc = "embed"
    /\ rc' = [rc EXCEPT !.pc = "idle", !.failed = (ollama # "up"), !.returned = TRUE,
                        !.res = RetrieveOutcome(ollama = "up", ragEntries,
                                                EmbedQueryText(rc.q)),
                        !.used = ragEntries, !.busy = Building]
    /\ UNCHANGED <<ollamaConnected, embeddings, ragEntries, indexedFiles, lastIndexed,
                   indexing, initPc, idx, loadEv, ragOps>>
    /\ UNCHANGED <<envVars, kVars, gwVars, sqlVars, memVars>>

(***************************************************************************)
(* The environment's own steps                                             *)
(***************************************************************************)
\* the number of changes the environment makes in one behaviour
MaxEnvOps == 1

EnvStep == envOps < MaxEnvOps /\ envOps' = envOps + 1

\* the backend starts, stops, gains or loses the model
OllamaChange(s) ==
    /\ EnvStep
    /\ s # ollama
    /\ ollama' = s
    /\ UNCHANGED <<now, fsDir, cacheFile, kVars, gwVars, sqlVars, ragVars, memVars>>

\* a corpus file is written: created, or modified (newer mtime); edit says
\* whether its content changes too
FsWrite(f, edit) ==
    /\ EnvStep
    /\ fsDir.exists
    /\ IsCorpusFile(f)
    /\ IF f \in DOMAIN fsDir.files
       THEN /\ fsDir.files[f].mtime < MaxMtime
            /\ fsDir' = [fsDir EXCEPT !.files[f] =
                            [mtime |-> @.mtime + 1,
                             ver |-> IF edit THEN @.mtime + 1 ELSE @.ver]]
       ELSE /\ edit
            /\ fsDir' = Dir(MapPut(fsDir.files, f, [mtime |-> 1, ver |-> 1]))
    /\ UNCHANGED <<ollama, now, cacheFile, kVars, gwVars, sqlVars, ragVars, memVars>>

\* a file is deleted
FsDelete(f) ==
    /\ EnvStep
    /\ fsDir.exists
    /\ f \in DOMAIN fsDir.files
    /\ fsDir' = Dir([x \in DOMAIN fsDir.files \ {f} |-> fsDir.files[x]])
    /\ UNCHANGED <<ollama, now, cacheFile, kVars, gwVars, sqlVars, ragVars, memVars>>

\* the knowledge directory is removed
FsRemoveDir ==
    /\ EnvStep
    /\ fsDir.exists
    /\ fsDir' = NoDir
    /\ UNCHANGED <<ollama, now, cacheFile, kVars, gwVars, sqlVars, ragVars, memVars>>

(***************************************************************************)
(* MemoryRagService                                                        *)
(***************************************************************************)
MAX_MEMORIES == 200
\* the thresholds, as percentages
SIMILARITY_THRESHOLD == 55
DUPLICATE_THRESHOLD == 90
MIN_CONTENT_LENGTH == 30
\* the length below which a summary is not stored (line 110)
MinSummaryLength == 10
\* the length of the fallback summary (line 308)
FallbackLength == 150
\* retrieveMemories' default topK (line 158)
DefaultTopK == 3

\* Time is counted in ticks of 3,200,000 ms, the largest unit in which both
\* the week of the recency factor (189 ticks) and the divisor 1e10 of the
\* eviction score (3,125 ticks) are whole numbers.
WeekTicks == 189
\* the eviction score retrievalCount * 1000 + timestamp / 1e10 (line 372),
\* multiplied by 1e10 ms: one retrieval weighs 1000 * 3,125 ticks
RetrievalWeightTicks == 3125000
\* Date.now() when the model starts, in ticks (about 1.8e12 ms)
StartTime == 562500
\* how far the clock advances in one behaviour
MaxTicks == 1
\* the number of requests (addMemory, retrieveMemories, forgetByKeyword,
\* clear) one behaviour makes
MaxMemOps == 2

\* cosineSimilarity of MemoryRagService (lines 416-433), as a percentage
memCosineSimilarity(a, b) ==
    IF Len(a) # Len(b) \/ Len(a) = 0 THEN 0
    ELSE LET denominator == ISqrt(Dot(a, a)) * ISqrt(Dot(b, b))
         IN  IF denominator = 0 THEN 0 ELSE (100 * Dot(a, b)) \div denominator

\* the texts of the model
SumGato ==
    <<"T", "i", "e", "n", "e", " ", "u", "n", " ", "g", "a", "t", "o">>
SumGatos ==
    <<"T", "i", "e", "n", "e", " ", "d", "o", "s", " ", "g", "a", "t", "o",
      "s">>
SumRosario ==
    <<"V", "i", "v", "e", " ", "e", "n", " ", "R", "o", "s", "a", "r", "i",
      "o">>
SumShort ==
    <<"o", "k">>
SumHora ==
    <<"P", "r", "e", "g", "u", "n", "t", "o_", " ", "l", "a", " ", "h", "o",
      "r", "a">>
QueryGato ==
    <<"y", " ", "m", "i", " ", "g", "a", "t", "o", "?">>
QueryClima ==
    <<"l", "l", "u", "e", "v", "e", " ", "h", "o", "y", "?">>
UserGato ==
    <<"t", "e", "n", "g", "o", " ", "u", "n", " ", "g", "a", "t", "o", " ",
      "l", "l", "a", "m", "a", "d", "o", " ", "m", "i", "c", "h", "i">>
AsstGato ==
    <<"q", "u", "e", " ", "l", "i", "n", "d", "o", " ", "n", "o", "m", "b",
      "r", "e">>
UserHola ==
    <<" ", "H", "o", "l", "a", ",", " ", "t", "e", "n", "g", "o", " ", "u",
      "n", " ", "g", "a", "t", "o", " ", "l", "l", "a", "m", "a", "d", "o",
      " ", "m", "i", "c", "h", "i">>
UserHora ==
    <<"q", "u", "e", " ", "h", "o", "r", "a", " ", "e", "s">>
AsstHora ==
    <<"l", "a", "s", " ", "t", "r", "e", "s">>
AsstNoSe ==
    <<"N", "o", " ", "s", "e_", " ", "q", "u", "e_", " ", "d", "e", "c",
      "i", "r", "t", "e", " ", "s", "o", "b", "r", "e", " ", "e", "s", "o">>
UserLong == <<"m", "i", SP>> \o Rep("z", 160)

\* the embedding model on the texts of the model (integer norms, see VecTable)
EmbedText(text) ==
    CASE text = SumGato -> <<4, 3>>
      [] text = SumGatos -> <<3, 4>>
      [] text = SumRosario -> <<0, 1>>
      [] text = QueryGato -> <<4, 3>>
      [] text = QueryClima -> <<0, 1>>
      [] OTHER -> <<1, 0>>

\* the exchanges chat hands to addMemory
Exchanges ==
    {[user |-> UserGato, asst |-> AsstGato],
     [user |-> UserHola, asst |-> AsstGato],
     [user |-> UserHora, asst |-> AsstHora],
     [user |-> UserGato, asst |-> AsstNoSe],
     [user |-> UserLong, asst |-> AsstGato]}

\* what the summarizer can answer (message.content, before trim)
LlmOutputs == {SumGatos, SumRosario, SumShort, <<>>}

\* the first trivialPatterns regex: the trimmed user turn begins with a greeting
GreetingWords ==
    {<<"h", "o", "l", "a">>, <<"c", "h", "a", "u">>, <<"b", "u", "e", "n", "a", "s">>, <<"h", "e", "y">>, <<"h", "i">>, <<"h", "e", "l", "l", "o">>}

WBueno == <<"b", "u", "e", "n", "o">>
WBuena == <<"b", "u", "e", "n", "a">>
WDia == <<"d", "i", "a">>
WDiaAcc == <<"d", "i_", "a">>
WTarde == <<"t", "a", "r", "d", "e">>
WNoche == <<"n", "o", "c", "h", "e">>

GreetingPairs ==
    {<<WBueno, WDia>>, <<WBueno, WDiaAcc>>, <<WBuena, WTarde>>, <<WBuena, WNoche>>}

\* w1 s? \s+ w2 at the start of s
PairPrefix(s, w1, w2) ==
    \E opt \in {0, 1} : \E n \in 1..Len(s) :
        /\ StartsWith(s, w1)
        /\ (opt = 1 => Len(s) > Len(w1) /\ s[Len(w1) + 1] = "s")
        /\ Len(s) >= Len(w1) + opt + n
        /\ \A k \in 1..n : IsSpace(s[Len(w1) + opt + k])
        /\ StartsWith(SubSeq(s, Len(w1) + opt + n + 1, Len(s)), w2)

\* the second trivialPatterns regex: the trimmed user turn is one of these
ThanksWords ==
    {<<"g", "r", "a", "c", "i", "a", "s">>, <<"t", "h", "a", "n", "k", "s">>, <<"o", "k">>,
     <<"d", "a", "l", "e">>, <<"g", "e", "n", "i", "a", "l">>, <<"p", "e", "r", "f", "e", "c", "t", "o">>,
     <<"l", "i", "s", "t", "o">>, <<"b", "i", "e", "n">>}

\* dontKnowPatterns, each alternative written out
DontKnowPhrases ==
    {<<"n", "o", " ", "s", "e_">>,
     <<"n", "o", " ", "t", "e", "n", "g", "o">>,
     <<"n", "o", " ", "p", "u", "e", "d", "o">>,
     <<"n", "o", " ", "e", "n", "c", "o", "n", "t", "r", "e_">>,
     <<"n", "o", " ", "e", "n", "c", "o", "n", "t", "r", "e">>,
     <<"n", "o", " ", "e", "n", "c", "o", "n", "t", "r", "o_">>,
     <<"s", "e", " ", "m", "e", " ", "t", "r", "a", "b", "o_">>,
     <<"s", "e", " ", "m", "e", " ", "t", "r", "a", "b", "o">>,
     <<"p", "r", "o", "b", "a_", " ", "d", "e", " ", "n", "u", "e", "v", "o">>,
     <<"p", "r", "o", "b", "a", " ", "d", "e", " ", "n", "u", "e", "v", "o">>,
     <<"m", "e", " ", "q", "u", "e", "d", "e_", " ", "s", "i", "n", " ", "c", "r", "e_", "d", "i", "t", "o", "s">>,
     <<"m", "e", " ", "q", "u", "e", "d", "e_", " ", "s", "i", "n", " ", "c", "r", "e", "d", "i", "t", "o", "s">>,
     <<"m", "e", " ", "q", "u", "e", "d", "e", " ", "s", "i", "n", " ", "c", "r", "e_", "d", "i", "t", "o", "s">>,
     <<"m", "e", " ", "q", "u", "e", "d", "e", " ", "s", "i", "n", " ", "c", "r", "e", "d", "i", "t", "o", "s">>,
     <<"m", "e", " ", "q", "u", "e", "d", "o_", " ", "s", "i", "n", " ", "c", "r", "e_", "d", "i", "t", "o", "s">>,
     <<"m", "e", " ", "q", "u", "e", "d", "o_", " ", "s", "i", "n", " ", "c", "r", "e", "d", "i", "t", "o", "s">>}

\* isTrivialExchange (lines 314-338); the regexes are case-insensitive
isTrivialExchange(userMsg, assistantMsg) ==
    LET combined == ToLower(Trim(userMsg))
        assistant == ToLower(assistantMsg)
    IN  \/ \E g \in GreetingWords : StartsWith(combined, g)
        \/ \E p \in GreetingPairs : PairPrefix(combined, p[1], p[2])
        \/ combined \in ThanksWords
        \/ \E d \in DontKnowPhrases : Includes(assistant, d)

\* the null generateSummary returns: `summary || null` gives it for the
\* empty text alone, and addMemory treats both alike (line 110)
NoSummary == <<>>

\* a summarizer whose failure yields no summary
SummaryOrNothing(userMsg, assistantMsg, llmOk, content) ==
    IF llmOk /\ Trim(content) # <<>> THEN Trim(content) ELSE NoSummary

\* generateSummary (lines 279-310): the trimmed answer, null when it is
\* empty, or the fallback when the call threw
generateSummary(userMsg, assistantMsg, llmOk, content) ==
    IF llmOk
    THEN (IF Trim(content) = <<>> THEN NoSummary ELSE Trim(content))
    ELSE SliceFirst(userMsg \o <<SP, "-", SP>> \o assistantMsg, FallbackLength)

\* a score that ignores the retrieval count
EvictScoreOldest(e) == e.timestamp

\* the eviction score of evictLeastUseful (line 372), times 1e10 ms
EvictScore(e) == e.retrievalCount * RetrievalWeightTicks + e.timestamp

\* the index evictLeastUseful removes (lines 366-377): the first index of
\* the least score
WorstIdx(entries) ==
    LET least == SetMin({EvictScore(entries[i]) : i \in 1..Len(entries)})
    IN  SetMin({i \in 1..Len(entries) : EvictScore(entries[i]) = least})

evictLeastUseful(entries) ==
    IF entries = <<>> THEN entries ELSE RemoveAt(entries, WorstIdx(entries))

\* the while loop of addEntry (lines 354-356)
RECURSIVE EnforceCap(_)
EnforceCap(entries) ==
    IF Len(entries) > MAX_MEMORIES THEN EnforceCap(evictLeastUseful(entries))
    ELSE entries

\* an insertion that never evicts
addEntryNoCap(entries, summary, embedding, t, oid) ==
    Append(entries,
           [oid |-> oid, id |-> t, summary |-> summary, embedding |-> embedding,
            timestamp |-> t, retrievalCount |-> 0])

\* addEntry (lines 342-360) at time t, for the new object oid
addEntry(entries, summary, embedding, t, oid) ==
    EnforceCap(Append(entries,
                      [oid |-> oid, id |-> t, summary |-> summary, embedding |-> embedding,
                       timestamp |-> t, retrievalCount |-> 0]))

Oids(entries) == {entries[i].oid : i \in 1..Len(entries)}

\* the entries an insertion removed
Evicted(pushed, after) ==
    KeepIdx(pushed, {i \in 1..Len(pushed) : pushed[i].oid \notin Oids(after)})

\* The store file: absent, unparsable, or the JSON of a store.  An entry on
\* disk says whether its timestamp and its retrievalCount are numbers.
NoStore == [kind |-> "none", entries |-> <<>>, embeddingModel |-> ""]
CorruptStore == [kind |-> "corrupt", entries |-> <<>>, embeddingModel |-> ""]

\* JSON.stringify of the store: the object identities are not written
ToDisk(entries) ==
    [kind |-> "json",
     entries |-> [i \in 1..Len(entries) |->
                     [id |-> entries[i].id, summary |-> entries[i].summary,
                      embedding |-> entries[i].embedding,
                      timestamp |-> entries[i].timestamp, tsIsNumber |-> TRUE,
                      retrievalCount |-> entries[i].retrievalCount, rcIsNumber |-> TRUE]],
     embeddingModel |-> embeddingModel]

\* a load that starts every entry's count again from zero
loadFromDiskResetCounts(disk, first) ==
    IF disk.kind # "json" THEN <<>>
    ELSE IF disk.embeddingModel # embeddingModel THEN <<>>
    ELSE LET kept == KeepIdx(disk.entries,
                             {i \in 1..Len(disk.entries) :
                                 /\ disk.entries[i].id # 0
                                 /\ disk.entries[i].summary # <<>>
                                 /\ disk.entries[i].tsIsNumber})
         IN  [i \in 1..Len(kept) |->
                [oid |-> first + i - 1, id |-> kept[i].id, summary |-> kept[i].summary,
                 embedding |-> kept[i].embedding, timestamp |-> kept[i].timestamp,
                 retrievalCount |-> 0]]

\* loadFromDisk (lines 465-504): the entries in memory after it, as new
\* objects first, first + 1, ...
loadFromDisk(disk, first) ==
    IF disk.kind # "json" THEN <<>>
    ELSE IF disk.embeddingModel # embeddingModel THEN <<>>
    ELSE LET kept == KeepIdx(disk.entries,
                             {i \in 1..Len(disk.entries) :
                                 /\ disk.entries[i].id # 0
                                 /\ disk.entries[i].summary # <<>>
                                 /\ disk.entries[i].tsIsNumber})
         IN  [i \in 1..Len(kept) |->
                [oid |-> first + i - 1, id |-> kept[i].id, summary |-> kept[i].summary,
                 embedding |-> kept[i].embedding, timestamp |-> kept[i].timestamp,
                 retrievalCount |-> IF kept[i].rcIsNumber THEN kept[i].retrievalCount
                                    ELSE 0]]

AddCallers == {"a1", "a2"}

\* what a call of addMemory read at its duplicate check and at step 3: the
\* last entry (none: the empty sequence), the embeddings instance, the
\* connected flag
NoCheck == [last |-> <<>>, inst |-> FALSE, connected |-> FALSE]

IdleAdd == [pc |-> "idle", user |-> <<>>, asst |-> <<>>, summary |-> <<>>,
            lastEmb |-> <<>>, check |-> NoCheck]
IdleRet == [pc |-> "idle", q |-> <<>>, valid |-> <<>>]
IdleBf  == [pc |-> "idle", todo |-> <<>>, filled |-> 0]
NoEvent == [op |-> "none"]

LlmResults ==
    {[ok |-> TRUE, content |-> x] : x \in LlmOutputs} \cup {[ok |-> FALSE, content |-> <<>>]}

MemQueries == {QueryGato, QueryClima}
ForgetKeywords == {<<"G", "A", "T", "O">>, <<"x", "y", "z">>}

MemFrame == UNCHANGED <<kVars, gwVars, sqlVars, ragVars, ollama, fsDir, cacheFile, envOps>>

\* a duplicate check that reads the oldest entry
FirstEntry(entries) == entries[1]

\* the entry the duplicate check reads (line 117)
LastEntry(entries) == entries[Len(entries)]

\* the duplicate test (line 126)
IsDuplicate(similarity) == similarity > DUPLICATE_THRESHOLD

\* the admission filter of addMemory (lines 98-105)
Admitted(userMsg, assistantMsg) ==
    /\ ~(Len(userMsg) + Len(assistantMsg) < MIN_CONTENT_LENGTH)
    /\ ~isTrivialExchange(userMsg, assistantMsg)

\* whether step 3 of addMemory asks the backend for the embedding (line 141)
WantsEmbedding(emb, connected) == emb /\ connected

\* entry.embedding = v on the object oid, wherever the store still holds it
SetEmbedding(entries, oid, v) ==
    [i \in 1..Len(entries) |->
        IF entries[i].oid = oid THEN [entries[i] EXCEPT !.embedding = v] ELSE entries[i]]

\* onModuleInit (lines 83-89): loadFromDisk, then backfillEmbeddings up to
\* its first await (lines 388-401).  RagService and MemoryRagService are
\* providers of the one AppModule (lines 15-24), whose onModuleInit hooks
\* the framework calls in one synchronous pass: this hook runs after
\* RagService's hook has started the probe and before the probe answers.
MemOnModuleInit ==
    /\ memBoot = "new"
    /\ initPc = "probe"
    /\ memBoot' = "ready"
    /\ LET loaded == loadFromDisk(memDisk, memNext)
           toBackfill == KeepIdx(loaded, {i \in 1..Len(loaded) : loaded[i].embedding = <<>>})
       IN  /\ memEntries' = loaded
           /\ memNext' = memNext + Len(loaded)
           /\ bf' = IF ~embeddings \/ ~ollamaConnected \/ toBackfill = <<>>
                    THEN [IdleBf EXCEPT !.pc = "done"]
                    ELSE [IdleBf EXCEPT !.pc = "run", !.todo = toBackfill]
           /\ memEv' = [op |-> "init"]
    /\ UNCHANGED <<memSaveTimer, memDisk, add, ret, memOps, now>>
    /\ MemFrame

\* one turn of the backfill loop (lines 399-411): embedQuery answers and the
\* entry object gets its embedding, or it throws and the loop stops
BackfillStep ==
    /\ bf.pc = "run"
    /\ LET entry == Head(bf.todo)
           ok == ollama = "up"
           filled == IF ok THEN bf.filled + 1 ELSE bf.filled
           more == ok /\ Len(bf.todo) > 1
       IN  /\ memEntries' = IF ok THEN SetEmbedding(memEntries, entry.oid, EmbedText(entry.summary))
                            ELSE memEntries
           /\ bf' = IF more THEN [bf EXCEPT !.todo = Tail(@), !.filled = filled]
                    ELSE [IdleBf EXCEPT !.pc = "done", !.filled = filled]
           /\ memSaveTimer' = IF ~more /\ filled > 0 THEN TRUE ELSE memSaveTimer
           /\ memEv' = [op |-> "backfill", ok |-> ok]
    /\ UNCHANGED <<memNext, memDisk, memBoot, add, ret, memOps, now>>
    /\ MemFrame

\* the calls of addMemory in flight are told apart by a slot; a new call
\* takes the first free one
FreeSlot == IF add["a1"].pc = "idle" THEN "a1" ELSE "a2"

\* addMemory up to its first await (lines 98-109)
AddCall(c, ex) ==
    /\ memBoot = "ready"
    /\ add[c].pc = "idle"
    /\ c = FreeSlot
    /\ memOps < MaxMemOps
    /\ memOps' = memOps + 1
    /\ IF Admitted(ex.user, ex.asst)
       THEN /\ add' = [add EXCEPT ![c] = [IdleAdd EXCEPT !.pc = "summary", !.user = ex.user,
                                                          !.asst = ex.asst]]
            /\ memEv' = [op |-> "addMemory.call", caller |-> c]
       ELSE /\ add' = add
            /\ memEv' = [op |-> "addMemory", caller |-> c, out |-> "skipped", threw |-> FALSE,
                         summary |-> <<>>, pre |-> memEntries, timer |-> memSaveTimer]
    /\ UNCHANGED <<memEntries, memNext, memSaveTimer, memDisk, memBoot, bf, ret, now>>
    /\ MemFrame

\* addEntry and the return of addMemory
Store(c, summary, embedding, path, check) ==
    /\ memEntries' = addEntry(memEntries, summary, embedding, now, memNext)
    /\ memNext' = memNext + 1
    /\ memSaveTimer' = TRUE
    /\ add' = [add EXCEPT ![c] = IdleAdd]
    /\ memEv' = [op |-> "addMemory", caller |-> c, out |-> "stored", threw |-> FALSE,
                 path |-> path, summary |-> summary, embedding |-> embedding,
                 oid |-> memNext, t |-> now, pre |-> memEntries, timer |-> memSaveTimer,
                 check |-> check]

\* addMemory returns without storing
Drop(c, out, threw, summary, path, check) ==
    /\ add' = [add EXCEPT ![c] = IdleAdd]
    /\ memEv' = [op |-> "addMemory", caller |-> c, out |-> out, threw |-> threw,
                 path |-> path, summary |-> summary, embedding |-> <<>>,
                 pre |-> memEntries, timer |-> memSaveTimer,
                 check |-> check]
    /\ UNCHANGED <<memEntries, memNext, memSaveTimer>>

\* the summarizer answers or throws (lines 109-148, up to the next await)
AddSummary(c, llm) ==
    /\ add[c].pc = "summary"
    /\ LET summary == generateSummary(add[c].user, add[c].asst, llm.ok, llm.content)
           check == [last |-> IF Len(memEntries) > 0 THEN <<memEntries[Len(memEntries)]>>
                              ELSE <<>>,
                     inst |-> embeddings, connected |-> ollamaConnected]
       IN  IF summary = NoSummary \/ Len(summary) < MinSummaryLength
           THEN Drop(c, "short", FALSE, summary, "none", NoCheck)
           ELSE IF Len(memEntries) > 0 /\ LastEntry(memEntries).embedding # <<>> /\ embeddings
           THEN /\ add' = [add EXCEPT ![c].pc = "dupEmbed", ![c].summary = summary,
                                      ![c].lastEmb = LastEntry(memEntries).embedding,
                                      ![c].check = check]
                /\ memEv' = [op |-> "addMemory.summary", caller |-> c]
                /\ UNCHANGED <<memEntries, memNext, memSaveTimer>>
           ELSE IF WantsEmbedding(embeddings, ollamaConnected)
           THEN /\ add' = [add EXCEPT ![c].pc = "embed", ![c].summary = summary,
                                      ![c].check = check]
                /\ memEv' = [op |-> "addMemory.summary", caller |-> c]
                /\ UNCHANGED <<memEntries, memNext, memSaveTimer>>
           ELSE Store(c, summary, <<>>, "unavailable", check)
    /\ UNCHANGED <<memDisk, memBoot, bf, ret, memOps, now>>
    /\ MemFrame

\* what addMemory does when embedQuery threw (the catch, lines 149-151)
OnEmbedError(c, path) ==
    Drop(c, "failed", TRUE, add[c].summary, path, add[c].check)

\* the embedding of the duplicate check answers or throws (lines 121-134)
AddDupEmbedReturn(c) ==
    /\ add[c].pc = "dupEmbed"
    /\ IF ollama # "up"
       THEN OnEmbedError(c, "dup")
       ELSE LET newEmbedding == EmbedText(add[c].summary)
                similarity == memCosineSimilarity(newEmbedding, add[c].lastEmb)
            IN  IF IsDuplicate(similarity)
                THEN /\ add' = [add EXCEPT ![c] = IdleAdd]
                     /\ memEv' = [op |-> "addMemory", caller |-> c, out |-> "duplicate",
                                  threw |-> FALSE, path |-> "dup",
                                  summary |-> add[c].summary, embedding |-> newEmbedding,
                                  pre |-> memEntries, timer |-> memSaveTimer,
                                  check |-> add[c].check]
                     /\ UNCHANGED <<memEntries, memNext, memSaveTimer>>
                ELSE Store(c, add[c].summary, newEmbedding, "dup", add[c].check)
    /\ UNCHANGED <<memDisk, memBoot, bf, ret, memOps, now>>
    /\ MemFrame

\* the embedding of step 3 answers or throws (lines 142-143)
AddEmbedReturn(c) ==
    /\ add[c].pc = "embed"
    /\ IF ollama # "up"
       THEN OnEmbedError(c, "embed")
       ELSE Store(c, add[c].summary, EmbedText(add[c].summary), "embed", add[c].check)
    /\ UNCHANGED <<memDisk, memBoot, bf, ret, memOps, now>>
    /\ MemFrame

\* recencyFactor * WeekTicks (lines 182-184)
RecencyNum(t, timestamp) ==
    IF WeekTicks - (t - timestamp) > 0 THEN WeekTicks - (t - timestamp) ELSE 0

\* finalScore (line 186) times 100 * 100 * WeekTicks
FinalScore(similarity, t, timestamp) ==
    similarity * 85 * WeekTicks + RecencyNum(t, timestamp) * 15 * 100

\* a selection that keeps the k first elements in store order
FirstInOrder(s, k) == SliceFirst(s, k)

\* scored.sort(...).filter(...).slice(0, topK) keeps the k first elements of
\* the stable descending order; they are picked one by one: the first
\* element of the highest score, then the same among the rest
RECURSIVE TopByScore(_, _)
TopByScore(s, k) ==
    IF k = 0 \/ s = <<>> THEN <<>>
    ELSE LET top == SetMax({s[i].score : i \in 1..Len(s)})
             i == SetMin({j \in 1..Len(s) : s[j].score = top})
         IN  <<s[i]>> \o TopByScore(RemoveAt(s, i), k - 1)

\* lines 175-195: score, sort, threshold, top K.  The entries are scored as
\* captured in validEntries: between the capture and this point nothing
\* writes the timestamp or the embedding of an entry that has an embedding.
MemRelevant(valid, queryEmbedding, t, topK) ==
    LET scored == [i \in 1..Len(valid) |->
                      LET similarity == memCosineSimilarity(queryEmbedding,
                                                            valid[i].embedding)
                      IN  [entry |-> valid[i], similarity |-> similarity,
                           score |-> FinalScore(similarity, t, valid[i].timestamp)]]
        passing == KeepIdx(scored, {i \in 1..Len(scored) :
                                       scored[i].similarity >= SIMILARITY_THRESHOLD})
    IN  TopByScore(passing, topK)

\* retrieveMemories up to its first await (lines 160-171)
RetCall(q) ==
    /\ memBoot = "ready"
    /\ ret.pc = "idle"
    /\ memOps < MaxMemOps
    /\ memOps' = memOps + 1
    /\ LET validEntries == KeepIdx(memEntries, {i \in 1..Len(memEntries) :
                                                   memEntries[i].embedding # <<>>})
       IN  IF ~embeddings \/ ~ollamaConnected \/ validEntries = <<>>
           THEN /\ ret' = ret
                /\ memEv' = [op |-> "retrieve", res |-> <<>>, called |-> FALSE,
                             failed |-> FALSE, returned |-> <<>>, q |-> q,
                             valid |-> validEntries, t |-> now,
                             inst |-> embeddings, connected |-> ollamaConnected,
                             pre |-> memEntries, timer |-> memSaveTimer]
           ELSE /\ ret' = [pc |-> "embed", q |-> q, valid |-> validEntries]
                /\ memEv' = [op |-> "retrieve.call"]
    /\ UNCHANGED <<memEntries, memNext, memSaveTimer, memDisk, memBoot, bf, add, now>>
    /\ MemFrame

\* a reinforcement that counts a retrieval on every entry of the store
ReinforceAll(entries, hit) ==
    [i \in 1..Len(entries) |->
        IF hit # {} THEN [entries[i] EXCEPT !.retrievalCount = @ + 1] ELSE entries[i]]

\* r.entry.retrievalCount++ on the returned objects (lines 202-204), as far
\* as the store still holds them
Reinforce(entries, hit) ==
    [i \in 1..Len(entries) |->
        IF entries[i].oid \in hit THEN [entries[i] EXCEPT !.retrievalCount = @ + 1]
        ELSE entries[i]]

\* embedQuery answers or throws (lines 171-226)
RetReturn ==
    /\ ret.pc = "embed"
    /\ ret' = IdleRet
    /\ \E relevant \in {IF ollama = "up"
                          THEN MemRelevant(ret.valid, EmbedText(ret.q), now, DefaultTopK)
                          ELSE <<>>} :
       \E hit \in {{relevant[i].entry.oid : i \in 1..Len(relevant)}} :
           /\ memEntries' = Reinforce(memEntries, hit)
           /\ memSaveTimer' = IF relevant = <<>> THEN memSaveTimer ELSE TRUE
           /\ memEv' = [op |-> "retrieve",
                        res |-> IF relevant = <<>> THEN <<>>
                                ELSE [i \in 1..Len(relevant) |->
                                         <<i, relevant[i].entry.summary>>],
                        called |-> TRUE, failed |-> ollama # "up", returned |-> relevant,
                        q |-> ret.q, valid |-> ret.valid, t |-> now,
                        inst |-> TRUE, connected |-> TRUE,
                        pre |-> memEntries, timer |-> memSaveTimer]
    /\ UNCHANGED <<memNext, memDisk, memBoot, bf, add, memOps, now>>
    /\ MemFrame

\* a forgetByKeyword that compares without lower-casing
ForgetCaseSensitive(keyword) ==
    /\ memBoot = "ready"
    /\ memOps < MaxMemOps
    /\ memOps' = memOps + 1
    /\ LET kept == KeepIdx(memEntries,
                           {i \in 1..Len(memEntries) :
                               ~Includes(memEntries[i].summary, keyword)})
           removed == Len(memEntries) - Len(kept)
       IN  /\ memEntries' = kept
           /\ memSaveTimer' = IF removed > 0 THEN TRUE ELSE memSaveTimer
           /\ memEv' = [op |-> "forget", keyword |-> keyword, removed |-> removed,
                        pre |-> memEntries, timer |-> memSaveTimer]
    /\ UNCHANGED <<memNext, memDisk, memBoot, bf, add, ret, now>>
    /\ MemFrame

\* forgetByKeyword (lines 231-245)
ForgetByKeyword(keyword) ==
    /\ memBoot = "ready"
    /\ memOps < MaxMemOps
    /\ memOps' = memOps + 1
    /\ LET lowerKw == ToLower(keyword)
           kept == KeepIdx(memEntries,
                           {i \in 1..Len(memEntries) :
                               ~Includes(ToLower(memEntries[i].summary), lowerKw)})
           removed == Len(memEntries) - Len(kept)
       IN  /\ memEntries' = kept
           /\ memSaveTimer' = IF removed > 0 THEN TRUE ELSE memSaveTimer
           /\ memEv' = [op |-> "forget", keyword |-> keyword, removed |-> removed,
                        pre |-> memEntries, timer |-> memSaveTimer]
    /\ UNCHANGED <<memNext, memDisk, memBoot, bf, add, ret, now>>
    /\ MemFrame

\* writeToDisk (lines 446-463): the store is written, or the write throws
\* and is logged
writeToDisk(disk, entries, ok) == IF ok THEN ToDisk(entries) ELSE disk

\* a clear that leaves the write to the debounce timer
ClearDebounced ==
    /\ memBoot = "ready"
    /\ memOps < MaxMemOps
    /\ memOps' = memOps + 1
    /\ memEntries' = <<>>
    /\ memSaveTimer' = TRUE
    /\ memEv' = [op |-> "clear", ok |-> TRUE, pre |-> memEntries, timer |-> memSaveTimer]
    /\ UNCHANGED <<memNext, memDisk, memBoot, bf, add, ret, now>>
    /\ MemFrame

\* clear (lines 249-258)
Clear ==
    /\ memBoot = "ready"
    /\ memOps < MaxMemOps
    /\ memOps' = memOps + 1
    /\ memEntries' = <<>>
    /\ memSaveTimer' = FALSE
    /\ \E ok \in BOOLEAN :
          /\ memDisk' = writeToDisk(memDisk, <<>>, ok)
          /\ memEv' = [op |-> "clear", ok |-> ok, pre |-> memEntries, timer |-> memSaveTimer]
    /\ UNCHANGED <<memNext, memBoot, bf, add, ret, now>>
    /\ MemFrame

\* the debounce timer of scheduleSave fires (lines 441-443)
MemSaveFire ==
    /\ memSaveTimer
    /\ memSaveTimer' = FALSE
    /\ \E ok \in BOOLEAN :
          /\ memDisk' = writeToDisk(memDisk, memEntries, ok)
          /\ memEv' = [op |-> "save", ok |-> ok]
    /\ UNCHANGED <<memEntries, memNext, memBoot, bf, add, ret, memOps, now>>
    /\ MemFrame

\* the clock advances
Tick ==
    /\ now < StartTime + MaxTicks
    /\ now' = now + 1
    /\ UNCHANGED <<ollama, fsDir, cacheFile, envOps, kVars, gwVars, sqlVars, ragVars, memVars>>

(***************************************************************************)
(* KnowledgeService: the operations                                        *)
(***************************************************************************)
\* the number of setContent calls one behaviour makes
MaxSetContent == 2
\* the number of paragraphs of a text of the model
MaxParas == 2

\* the paragraphs of the model's texts: white space only, a word, a long
\* paragraph, a paragraph as long as a chunk, nothing
ParaPieces ==
    {<<SP>>, <<"g", "a", "t", "o">>, Rep("a", 300), Rep("b", chunkSize), <<>>}

RECURSIVE ParaSeqs(_)
ParaSeqs(n) ==
    IF n = 0 THEN {<<>>}
    ELSE {Append(ps, p) : ps \in ParaSeqs(n - 1), p \in ParaPieces}

KTexts == {Join(ps, <<NL, NL>>) : ps \in UNION {ParaSeqs(n) : n \in 1..MaxParas}}

KFrame == UNCHANGED <<sqlVars, envVars, ragVars, memVars, gwVars>>

\* setContent (lines 41-49)
KSetContent(text) ==
    /\ kSets < MaxSetContent
    /\ kSets' = kSets + 1
    /\ kContent' = text
    /\ kChunks' = chunkText(text)
    /\ kSaveTimer' = TRUE
    /\ UNCHANGED <<kDisk, kWrites, kOut, kFailed>>
    /\ KFrame

\* the debounce timer fires (line 157): saveToDisk starts the write of the
\* content it reads now
KSaveFire ==
    /\ kSaveTimer
    /\ kSaveTimer' = FALSE
    /\ kWrites' = Append(kWrites, kContent)
    /\ UNCHANGED <<kContent, kChunks, kDisk, kSets, kOut, kFailed>>
    /\ KFrame

\* a write in flight ends (lines 166-172): the file holds its content, or
\* the write failed and was logged (kFailed remembers that one did)
KWriteDone(i) ==
    /\ i \in 1..Len(kWrites)
    /\ \E ok \in BOOLEAN :
          /\ kDisk' = IF ok THEN <<kWrites[i]>> ELSE kDisk
          /\ kFailed' = (kFailed \/ ~ok)
    /\ kWrites' = RemoveAt(kWrites, i)
    /\ UNCHANGED <<kContent, kChunks, kSaveTimer, kSets, kOut>>
    /\ KFrame

\* a call of retrieveContext (lines 63-93)
KRetrieve(query) ==
    /\ \E relevant \in {kRelevant(kChunks, tokenize(query))} :
          kOut' = [op |-> "retrieve", query |-> query, chunks |-> kChunks,
                   returned |-> relevant,
                   res |-> Join([i \in 1..Len(relevant) |-> relevant[i].content],
                                <<NL, NL>>)]
    /\ UNCHANGED <<kContent, kChunks, kDisk, kSaveTimer, kWrites, kSets, kFailed>>
    /\ KFrame

(***************************************************************************)
(* SqlService: the operations                                              *)
(***************************************************************************)
\* how many tables beyond MAX_TABLES the largest catalog of the model has
ExtraTables == 2

ColId == [name |-> <<"i", "d">>, dataType |-> <<"i", "n", "t">>,
          isPrimaryKey |-> TRUE, description |-> <<>>]
ColNombre == [name |-> <<"n", "o", "m", "b", "r", "e">>,
              dataType |-> <<"t", "e", "x", "t">>,
              isPrimaryKey |-> FALSE, description |-> <<"N", "o", "m", "b", "r", "e">>]

Tbl(i) == [schema |-> "public", name |-> <<"t", "b", "l">> \o IntToStr(i),
           description |-> <<>>, columns |-> <<ColId>>]

TblVendedor ==
    [schema |-> "public", name |-> <<"V", "e", "n", "d", "e", "d", "o", "r">>,
     description |-> <<"V", "e", "n", "t", "a", "s">>, columns |-> <<ColId, ColNombre>>]

\* a catalog of n tables, the last one being Vendedor
Catalog(n) == [i \in 1..n |-> IF i = n THEN TblVendedor ELSE Tbl(i)]

\* a table whose comment in pg_description has two lines
TblNotas ==
    [schema |-> "public", name |-> <<"n", "o", "t", "a", "s">>,
     description |-> <<"N", "o", "t", "a", "s", NL, "d", "e", "l", SP, "m", "e", "s">>,
     columns |-> <<ColId>>]

Catalogs ==
    {<<>>, <<TblNotas>>, Catalog(2), Catalog(MAX_TABLES), Catalog(MAX_TABLES + 1),
     Catalog(MAX_TABLES + ExtraTables)}

MsgStopWords == <<"Q", "u", "e", " ", "e", "s", " ", "d", "e", " ", "l", "a", " ", "?">>
MsgVendedores == <<"C", "u", "a", "n", "t", "o", "s", " ", "V", "E", "N", "D", "E", "D", "O", "R", "E", "S", " ", "h", "a", "y", "?">>
MsgTabla == <<"m", "o", "s", "t", "r", "a", "m", "e", " ", "t", "b", "l", "3", " ", "y", " ", "t", "b", "l", "1", "2">>
MsgShort == <<"a", " ", "y", "o", " ", "t", "u", " ", "e", "l", " ", "i", "d">>

MsgTblVendedores == <<"t", "b", "l", " ", "V", "e", "n", "d", "e", "d", "o", "r", "e", "s">>

UserMessages ==
    {<<>>, MsgStopWords, MsgVendedores, MsgTabla, MsgShort, MsgTblVendedores}

SqlFrame == UNCHANGED <<kVars, gwVars, envVars, ragVars, memVars>>

\* the number of connect and refresh requests one behaviour makes
MaxSqlReqs == 2

\* the calls of connectPool and refreshSchema in flight are told apart by a
\* slot; a new call takes the first free one
Readers == {"s1", "s2"}
IdleRead == [pc |-> "idle", conn |-> Null, kind |-> "none", again |-> FALSE]
FreeReader == IF sqlReads["s1"].pc = "idle" THEN "s1" ELSE "s2"

SqlRequest(r) ==
    /\ sqlReads[r].pc = "idle"
    /\ r = FreeReader
    /\ sqlReqs < MaxSqlReqs
    /\ sqlReqs' = sqlReqs + 1

\* connectPool (lines 181-222), called by onModuleInit or addConnection, up
\* to the first await of the readSchema it ends with: the pool is kept and
\* the catalog read starts
SqlConnect(r, conn) ==
    /\ SqlRequest(r)
    /\ conn \notin sqlPools
    /\ sqlPools' = sqlPools \cup {conn}
    /\ sqlReads' = [sqlReads EXCEPT ![r] =
                       [pc |-> "reading", conn |-> conn, kind |-> "connect", again |-> FALSE]]
    /\ UNCHANGED <<sqlActive, sqlSchema, sqlOut, sqlClients>>
    /\ SqlFrame

\* refreshSchema (lines 445-461) up to the first await of readSchema: with
\* a pool the catalog read starts; without one connectPool runs first, with
\* its own catalog read, and readSchema is called again after it
SqlRefreshCall(r, conn) ==
    /\ SqlRequest(r)
    /\ sqlPools' = sqlPools \cup {conn}
    /\ sqlReads' = [sqlReads EXCEPT ![r] =
                       [pc |-> "reading", conn |-> conn, kind |-> "refresh",
                        again |-> conn \notin sqlPools]]
    /\ UNCHANGED <<sqlActive, sqlSchema, sqlOut, sqlClients>>
    /\ SqlFrame

\* the clients one pool hands out at most (max: 3, line 203)
PoolMax == 3

\* how `pool.connect(); query; release()` can end when n clients of the
\* pool are checked out and were never released: done, no client obtained
\* (connect threw or timed out), or a query threw with the client in hand
PoolOutcomes(n) ==
    IF n >= PoolMax THEN {"noClient"} ELSE {"done", "noClient", "queryFailed"}

\* the clients left checked out: client.release() follows the last query
\* inside the try, so a query that throws skips it
CheckedOutAfter(n, out) == IF out = "queryFailed" THEN n + 1 ELSE n

\* whether readSchema throws to its caller when a catalog query failed: its
\* own catch logs the error and the call returns normally (lines 438-442)
ReadSchemaThrows(ok) == FALSE

\* the success field refreshSchema returns after its readSchema (lines
\* 461-472): true unless readSchema threw
RefreshSuccess(threw) == ~threw

\* readSchema ends (lines 429-443): the catalog read is stored, or a query
\* threw and the error was logged; a refreshSchema that awaited it returns
SqlReadSchema(r, tables) ==
    /\ sqlReads[r].pc = "reading"
    /\ \E out \in PoolOutcomes(sqlClients[sqlReads[r].conn]) :
       \E ok \in {out = "done"} :
          /\ sqlSchema' = IF ok THEN [sqlSchema EXCEPT ![sqlReads[r].conn] = Cached(tables)]
                          ELSE sqlSchema
          /\ sqlClients' = [sqlClients EXCEPT ![sqlReads[r].conn] = CheckedOutAfter(@, out)]
          /\ sqlOut' = IF sqlReads[r].kind = "refresh" /\ ~sqlReads[r].again
                       THEN [op |-> "refresh", msg |-> <<>>, tables |-> <<>>,
                             res |-> NoFilteredSchema, conn |-> sqlReads[r].conn,
                             success |-> RefreshSuccess(ReadSchemaThrows(ok)),
                             ok |-> ok,
                             kept |-> sqlSchema'[sqlReads[r].conn]
                                         = sqlSchema[sqlReads[r].conn]]
                       ELSE sqlOut
    /\ sqlReads' = [sqlReads EXCEPT ![r] =
                       IF sqlReads[r].again THEN [@ EXCEPT !.again = FALSE] ELSE IdleRead]
    /\ UNCHANGED <<sqlActive, sqlPools, sqlReqs>>
    /\ SqlFrame

\* `client = await pool.connect(); await client.query(...); client.release()`
\* inside a try, as executeQuery (lines 690-707) and testConnection (lines
\* 290-299) run it on an existing pool
SqlUseClient(conn, op) ==
    /\ conn \in sqlPools
    /\ \E out \in PoolOutcomes(sqlClients[conn]) :
          /\ sqlClients' = [sqlClients EXCEPT ![conn] = CheckedOutAfter(@, out)]
          /\ sqlOut' = [op |-> op, msg |-> <<>>, tables |-> <<>>,
                        res |-> NoFilteredSchema, conn |-> conn, ok |-> out = "done"]
    /\ UNCHANGED <<sqlActive, sqlSchema, sqlPools, sqlReads, sqlReqs>>
    /\ SqlFrame

SqlExecuteQuery(conn) == SqlUseClient(conn, "query")
SqlTestConnection(conn) == SqlUseClient(conn, "test")

\* setActiveConnection (lines 725-729)
SqlSetActive(conn) ==
    /\ sqlActive # conn
    /\ sqlActive' = conn
    /\ UNCHANGED <<sqlSchema, sqlOut, sqlPools, sqlReads, sqlReqs, sqlClients>>
    /\ SqlFrame

\* a call of getFilteredSchema (lines 483-555)
SqlGetFiltered(msg) ==
    /\ sqlOut' = [op |-> "filter", msg |-> msg,
                  tables |-> IF sqlActive = Null THEN <<>> ELSE sqlSchema[sqlActive].tables,
                  res |-> getFilteredSchema(sqlActive, sqlSchema, msg)]
    /\ UNCHANGED <<sqlActive, sqlSchema, sqlPools, sqlReads, sqlReqs, sqlClients>>
    /\ SqlFrame

(***************************************************************************)
(* cosineSimilarity applied to a pair of vectors, in both orders and to    *)
(* the first vector and itself                                             *)
(***************************************************************************)
CosVectors == UNION {[1..n -> (0 - MaxCoord)..MaxCoord] : n \in 0..MaxDim}

RagCosine(a, b) ==
    /\ memOps < MaxCosine
    /\ memOps' = memOps + 1
    /\ memEv' = [op |-> "cosine", engine |-> "rag", a |-> a, b |-> b,
                 ab |-> ragCosineDouble(a, b), ba |-> ragCosineDouble(b, a),
                 aa |-> ragCosineDouble(a, a)]
    /\ UNCHANGED <<memEntries, memNext, memSaveTimer, memDisk, memBoot, bf, add, ret, now>>
    /\ MemFrame

MemCosine(a, b) ==
    /\ memOps < MaxCosine
    /\ memOps' = memOps + 1
    /\ memEv' = [op |-> "cosine", engine |-> "mem", a |-> a, b |-> b,
                 ab |-> memCosineDouble(a, b), ba |-> memCosineDouble(b, a),
                 aa |-> memCosineDouble(a, a)]
    /\ UNCHANGED <<memEntries, memNext, memSaveTimer, memDisk, memBoot, bf, add, ret, now>>
    /\ MemFrame

(***************************************************************************)
(* ConversationStore (sessions) and HoloGateway                            *)
(***************************************************************************)
SocketIds == {"k1", "k2"}
SessionIds == {"u1", "u2"}
ChatSlots == {"h1", "h2"}

\* the number of messages kept for the LLM and for the display
LlmHistoryCap == 20
ChatHistoryCap == 50

\* the number of 'chat' events one behaviour handles
MaxChats == 2
\* the number of messages one behaviour adds to a conversation
MaxMessages == 52
\* how often a message follows one of the same role
MaxRepeats == 1

NoOwner == Null
NoSession ==
    [exists |-> FALSE, name |-> "", connected |-> FALSE,
     llmHistory |-> <<>>, chatHistory |-> <<>>]
NoSessions == [u \in SessionIds |-> NoSession]

IdleChat == [pc |-> "idle", sock |-> Null, session |-> Null, chat |-> 0]

GwFrame == UNCHANGED <<kVars, sqlVars, envVars, ragVars, memVars>>

\* getOrCreateSession (lines 522-536): a session that does not exist is
\* created empty and connected
getOrCreateSession(sessions, sessionId) ==
    IF sessions[sessionId].exists THEN sessions
    ELSE [sessions EXCEPT ![sessionId] =
             [exists |-> TRUE, name |-> "", connected |-> TRUE,
              llmHistory |-> <<>>, chatHistory |-> <<>>]]

\* setSessionConnected (lines 539-546)
setSessionConnected(sessions, sessionId, connected) ==
    IF sessions[sessionId].exists
    THEN [sessions EXCEPT ![sessionId].connected = connected]
    ELSE sessions

\* a cap that keeps the oldest messages
CappedFirst(h, cap) == SliceFirst(h, cap)

\* `if (h.length > cap) h = h.slice(-cap)` (lines 600-602, 605-607)
Capped(h, cap) == IF Len(h) > cap THEN SliceLast(h, cap) ELSE h

\* addUserMessage and addAssistantMessage (lines 595-632)
addMessage(sessions, sessionId, role, content, t) ==
    LET created == getOrCreateSession(sessions, sessionId)
    IN  [created EXCEPT
            ![sessionId].llmHistory =
                Capped(Append(@, [role |-> role, content |-> content]), LlmHistoryCap),
            ![sessionId].chatHistory =
                Capped(Append(@, [role |-> role, text |-> content, timestamp |-> t]),
                       ChatHistoryCap)]

\* clearSession (lines 635-651)
clearSession(sessions, sessionId) ==
    IF sessions[sessionId].exists
    THEN [sessions EXCEPT ![sessionId].llmHistory = <<>>,
                          ![sessionId].chatHistory = <<>>]
    ELSE sessions

\* handleConnection (lines 70-137): the socket presents the session id its
\* browser stored, or none; an unknown or missing id gets a new session
\* under a fresh random id
GwConnect(k, requested) ==
    /\ gwSockets[k] = Null
    /\ \E sessionId \in SessionIds :
          /\ IF requested # "" /\ requested \in SessionIds /\ gwSessions[requested].exists
             THEN /\ sessionId = requested
                  /\ gwSessions' = setSessionConnected(gwSessions, sessionId, TRUE)
             ELSE /\ ~gwSessions[sessionId].exists
                  /\ gwSessions' = getOrCreateSession(gwSessions, sessionId)
          /\ gwSockets' = [gwSockets EXCEPT ![k] = sessionId]
    /\ UNCHANGED <<gwOwner, gwChat, gwEmitted, gwLog, gwOps>>
    /\ GwFrame

\* handleDisconnect (lines 139-149)
GwDisconnect(k) ==
    /\ gwSockets[k] # Null
    /\ gwSockets' = [gwSockets EXCEPT ![k] = Null]
    /\ gwSessions' = setSessionConnected(gwSessions, gwSockets[k], FALSE)
    /\ UNCHANGED <<gwOwner, gwChat, gwEmitted, gwLog, gwOps>>
    /\ GwFrame

\* client.emit(ev) of the handler of chat number chat
Emit(emitted, k, chat, evs) ==
    [emitted EXCEPT ![k] = @ \o [i \in 1..Len(evs) |-> [ev |-> evs[i], chat |-> chat]]]

\* a catch that only stops the thinking indicator
OnChatErrorSilent == <<"chat:thinking:false">>

\* what the catch of handleChat emits (lines 259-265)
OnChatError == <<"chat:thinking:false", "chat:response">>

\* handleChat up to the await in LlmService.chat (lines 230-246; chat lines
\* 146-150): the two first events are emitted and the user turn is stored
GwChatCall(h, k) ==
    /\ gwChat[h].pc = "idle"
    /\ gwSockets[k] # Null
    /\ gwOps < MaxChats
    /\ gwOps' = gwOps + 1
    /\ gwChat' = [gwChat EXCEPT ![h] = [pc |-> "llm", sock |-> k, session |-> gwSockets[k],
                                         chat |-> gwOps + 1]]
    /\ gwEmitted' = Emit(gwEmitted, k, gwOps + 1, <<"chat:userMessage", "chat:thinking:true">>)
    /\ gwSessions' = addMessage(gwSessions, gwSockets[k], "user", gwOps + 1, now)
    /\ UNCHANGED <<gwSockets, gwOwner, gwLog>>
    /\ GwFrame

\* LlmService.chat returns an answer, returns the text of its own catch, or
\* the try of handleChat throws (lines 246-265)
GwChatReturn(h, outcome) ==
    /\ gwChat[h].pc = "llm"
    /\ gwChat' = [gwChat EXCEPT ![h] = [IdleChat EXCEPT !.chat = gwChat[h].chat]]
    /\ gwEmitted' = Emit(gwEmitted, gwChat[h].sock, gwChat[h].chat,
                         IF outcome = "throw" THEN OnChatError
                         ELSE <<"chat:thinking:false", "chat:response">>)
    /\ gwSessions' = IF outcome = "answer"
                     THEN addMessage(gwSessions, gwChat[h].session, "assistant",
                                     gwChat[h].chat, now)
                     ELSE gwSessions
    /\ UNCHANGED <<gwSockets, gwOwner, gwLog, gwOps>>
    /\ GwFrame

\* how often a message of the log follows one of the same role
Repeats(log) == Cardinality({i \in 2..Len(log) : log[i].role = log[i - 1].role})

\* addUserMessage or addAssistantMessage on a session (lines 595-632)
ConvAdd(u, role) ==
    /\ gwOps < MaxMessages
    /\ gwOps' = gwOps + 1
    /\ gwLog[u] # <<>> /\ gwLog[u][Len(gwLog[u])].role = role => Repeats(gwLog[u]) < MaxRepeats
    /\ gwSessions' = addMessage(gwSessions, u, role, gwOps + 1, now)
    /\ gwLog' = [gwLog EXCEPT ![u] = Append(@, [role |-> role, content |-> gwOps + 1])]
    /\ UNCHANGED <<gwSockets, gwOwner, gwChat, gwEmitted>>
    /\ GwFrame

\* clearSession on a session (lines 635-651)
ConvClear(u) ==
    /\ gwLog[u] # <<>>
    /\ gwSessions' = clearSession(gwSessions, u)
    /\ gwLog' = [gwLog EXCEPT ![u] = <<>>]
    /\ UNCHANGED <<gwSockets, gwOwner, gwChat, gwEmitted, gwOps>>
    /\ GwFrame

(***************************************************************************)
(* The state after construction, engine by engine                          *)
(***************************************************************************)
\* loadSync (lines 137-153) on the knowledge file
loadSync(disk) == IF disk = <<>> THEN <<>> ELSE disk[1]

\* the gateway and the conversation store after construction: no socket,
\* the owner and the sessions read from conversations.json
GwInit(owner, sessions) ==
    /\ gwSockets = [k \in SocketIds |-> Null]
    /\ gwSessions = sessions
    /\ gwOwner = owner
    /\ gwChat = [h \in ChatSlots |-> IdleChat]
    /\ gwEmitted = [k \in SocketIds |-> <<>>]
    /\ gwLog = [u \in SessionIds |-> <<>>]
    /\ gwOps = 0

KInit(disk) ==
    /\ kDisk = disk
    /\ kContent = loadSync(disk)
    /\ kChunks = chunkText(loadSync(disk))
    /\ kSaveTimer = FALSE
    /\ kWrites = <<>>
    /\ kSets = 0
    /\ kOut = [op |-> "none", query |-> <<>>, chunks |-> <<>>, returned |-> <<>>,
               res |-> <<>>]
    /\ kFailed = FALSE

SqlInit ==
    /\ sqlActive = Null
    /\ sqlSchema = [c \in ConnIds |-> NoSchema]
    /\ sqlOut = [op |-> "none", msg |-> <<>>, tables |-> <<>>, res |-> NoFilteredSchema]
    /\ sqlPools = {}
    /\ sqlReads = [r \in Readers |-> IdleRead]
    /\ sqlReqs = 0
    /\ sqlClients = [c \in ConnIds |-> 0]

\* the fields of RagService as declared (lines 31-36): no entries, no
\* embeddings instance, not connected, never indexed (lastIndexed 0 for null)
RagInit ==
    /\ ollamaConnected = FALSE
    /\ embeddings = FALSE
    /\ ragEntries = <<>>
    /\ indexedFiles = EmptyMap
    /\ lastIndexed = 0
    /\ indexing = FALSE
    /\ initPc = "new"
    /\ idx = [c \in Callers |-> IdleCall]
    /\ rc = IdleRc
    /\ loadEv = [ran |-> FALSE, installed |-> FALSE, accepted |-> FALSE,
                 cache |-> NoCache, dir |-> NoDir]
    /\ ragOps = 0

\* the fields of MemoryRagService as declared (lines 60-62)
MemInit(disk) ==
    /\ memEntries = <<>>
    /\ memNext = 1
    /\ memSaveTimer = FALSE
    /\ memDisk = disk
    /\ memBoot = "new"
    /\ bf = IdleBf
    /\ add = [c \in AddCallers |-> IdleAdd]
    /\ ret = IdleRet
    /\ memEv = NoEvent
    /\ memOps = 0

EnvInit(backend, dir, cache) ==
    /\ ollama = backend
    /\ now = StartTime
    /\ fsDir = dir
    /\ cacheFile = cache
    /\ envOps = 0

(***************************************************************************)
(* KnowledgeService alone                                                  *)
(***************************************************************************)
\* the knowledge files a run may start with: none, or one an earlier run saved
KDisks == {<<>>, <<Join(<<Rep("a", 300), Rep("b", chunkSize)>>, <<NL, NL>>)>>}

InitKnow ==
    /\ \E disk \in KDisks : KInit(disk)
    /\ SqlInit /\ GwInit(NoOwner, NoSessions) /\ RagInit /\ MemInit(NoStore)
    /\ EnvInit("down", NoDir, NoCache)

NextKnow ==
    \/ \E text \in KTexts : KSetContent(text)
    \/ KSaveFire
    \/ \E i \in 1..Len(kWrites) : KWriteDone(i)

SpecKnow == InitKnow /\ [][NextKnow]_vars

(***************************************************************************)
(* KnowledgeService answering queries                                      *)
(***************************************************************************)
\* the padding that makes every paragraph a chunk of its own
PadLength == 300

ParaGato ==
    <<"g", "a", "t", "o">>
ParaPerro ==
    <<"p", "e", "r", "r", "o">>
ParaGatoGatoTengo ==
    <<"g", "a", "t", "o", SP, "g", "a", "t", "o", SP, "t", "e", "n", "g",
      "o">>
ParaGatos ==
    <<"g", "a", "t", "o", "s">>
ParaTengoGato ==
    <<"T", "e", "n", "g", "o", SP, "g", "a", "t", "o">>
ParaGatoYGatos ==
    <<"g", "a", "t", "o", SP, "y", SP, "g", "a", "t", "o", "s">>
ParaElGato ==
    <<"E", "l", SP, "g", "a", "t", "o", ".">>
QueryTengoGato ==
    <<"t", "e", "n", "g", "o", SP, "u", "n", SP, "g", "a", "t", "o">>
QueryNoToken ==
    <<"u", "n", SP, "y">>
QueryPerros ==
    <<"p", "e", "r", "r", "o", "s">>
QueryGatoPunct ==
    <<"G", "a", "t", "o", "?", "!">>
QueryAve ==
    <<"a", "v", "e">>

\* a paragraph followed by its padding, a run of dots
Padded(para) == para \o <<SP>> \o Rep(".", PadLength)

\* a text of seven padded paragraphs, each its own chunk
SevenChunks ==
    Join(<<Padded(ParaGato), Padded(ParaPerro), Padded(ParaGatoGatoTengo),
           Padded(ParaGatos), Padded(ParaTengoGato), Padded(ParaGatoYGatos),
           Padded(ParaElGato)>>, <<NL, NL>>)

\* the knowledge texts of the model: seven chunks, two short paragraphs
\* (one chunk), nothing
KRetTexts == {SevenChunks, Join(<<ParaGato, ParaPerro>>, <<NL, NL>>), <<>>}

KQueries == {QueryTengoGato, QueryNoToken, QueryPerros, QueryGatoPunct, QueryAve}

InitKnowRet ==
    /\ \E disk \in {<<>>, <<SevenChunks>>} : KInit(disk)
    /\ SqlInit /\ GwInit(NoOwner, NoSessions) /\ RagInit /\ MemInit(NoStore)
    /\ EnvInit("down", NoDir, NoCache)

NextKnowRet ==
    \/ \E text \in KRetTexts : KSetContent(text)
    \/ \E query \in KQueries : KRetrieve(query)
    \/ KSaveFire
    \/ \E i \in 1..Len(kWrites) : KWriteDone(i)

SpecKnowRet == InitKnowRet /\ [][NextKnowRet]_vars

(***************************************************************************)
(* SqlService alone                                                        *)
(***************************************************************************)
InitSql ==
    /\ KInit(<<>>) /\ SqlInit /\ GwInit(NoOwner, NoSessions) /\ RagInit /\ MemInit(NoStore)
    /\ EnvInit("down", NoDir, NoCache)

NextSql ==
    \/ \E r \in Readers : \E conn \in ConnIds : SqlConnect(r, conn)
    \/ \E r \in Readers : \E conn \in ConnIds : SqlRefreshCall(r, conn)
    \/ \E r \in Readers : \E tables \in Catalogs : SqlReadSchema(r, tables)
    \/ \E conn \in ConnIds \cup {Null} : SqlSetActive(conn)
    \/ \E msg \in UserMessages : SqlGetFiltered(msg)

SpecSql == InitSql /\ [][NextSql]_vars

\* SqlService used by one client at a time: connections are opened and
\* their schemas read one after the other
NextSqlSeq ==
    \/ \E conn \in ConnIds : SqlConnect("s1", conn)
    \/ \E conn \in ConnIds : SqlRefreshCall("s1", conn)
    \/ \E tables \in Catalogs : SqlReadSchema("s1", tables)
    \/ \E conn \in ConnIds \cup {Null} : SqlSetActive(conn)
    \/ \E msg \in UserMessages : SqlGetFiltered(msg)

SpecSqlSeq == InitSql /\ [][NextSqlSeq]_vars

\* SqlService and its connection pools: connections, schema reads, queries
\* and connection tests
NextSqlPool ==
    \/ \E r \in Readers : \E conn \in ConnIds : SqlConnect(r, conn)
    \/ \E r \in Readers : \E conn \in ConnIds : SqlRefreshCall(r, conn)
    \/ \E r \in Readers : \E tables \in Catalogs : SqlReadSchema(r, tables)
    \/ \E conn \in ConnIds : SqlExecuteQuery(conn)
    \/ \E conn \in ConnIds : SqlTestConnection(conn)

SpecSqlPool == InitSql /\ [][NextSqlPool]_vars

(***************************************************************************)
(* RagService with its environment                                         *)
(***************************************************************************)
File1 == [mtime |-> 1, ver |-> 1]

\* the knowledge directories a run may start with
StartDirs ==
    {NoDir, Dir(EmptyMap), Dir([f \in {"a.txt"} |-> File1]),
     Dir([f \in {"b.md", "c.pdf"} |-> File1])}

\* the cache files a run may start with: none, one cut short by a crash,
\* one an earlier run wrote after a pass, one written for another model
StartCaches ==
    {NoCache, Corrupt}
    \cup {CacheOf(d, embeddingModel) : d \in {d \in StartDirs : CorpusFiles(d) # <<>>}}
    \cup {CacheOf(Dir([f \in {"b.md"} |-> File1]), "all-minilm")}

InitRag ==
    /\ KInit(<<>>) /\ SqlInit /\ GwInit(NoOwner, NoSessions) /\ RagInit /\ MemInit(NoStore)
    /\ \E backend \in OllamaStates : \E dir \in StartDirs : \E cache \in StartCaches :
          EnvInit(backend, dir, cache)

NextRag ==
    \/ RagOnModuleInit
    \/ InitProbeReturn
    \/ InitLoadCache
    \/ \E c \in GatewayCallers : IndexCall(c)
    \/ \E c \in GatewayCallers : IndexProbeReturn(c)
    \/ \E c \in Callers : IndexReadFile(c)
    \/ \E c \in Callers : IndexEmbedBatch(c)
    \/ \E c \in Callers : IndexSaveDone(c)
    \/ \E q \in Queries : RcCall(q)
    \/ RcReturn
    \/ \E s \in OllamaStates : OllamaChange(s)
    \/ \E f \in Files : \E edit \in BOOLEAN : FsWrite(f, edit)
    \/ \E f \in Files : FsDelete(f)
    \/ FsRemoveDir

SpecRag == InitRag /\ [][NextRag]_vars

(***************************************************************************)
(* MemoryRagService with RagService's start-up and the backend             *)
(***************************************************************************)
\* an entry as writeToDisk writes it
DiskEntry(summary, withEmbedding, timestamp, retrievalCount) ==
    [id |-> timestamp, summary |-> summary,
     embedding |-> IF withEmbedding THEN EmbedText(summary) ELSE <<>>,
     timestamp |-> timestamp, tsIsNumber |-> TRUE,
     retrievalCount |-> retrievalCount, rcIsNumber |-> TRUE]

StoreOf(entries) ==
    [kind |-> "json", entries |-> entries, embeddingModel |-> embeddingModel]

SummaryCycle == <<SumGato, SumRosario, SumGatos>>

\* A store of n entries an earlier run wrote: entry i was added two ticks
\* after entry i - 1, and the entries at the indices in used were retrieved
\* once.
WrittenStore(n, used) ==
    StoreOf([i \in 1..n |->
                DiskEntry(SummaryCycle[(i % 3) + 1], TRUE,
                          StartTime - 2 * (n - i + 1),
                          IF i \in used THEN 1 ELSE 0)])

\* a store whose second entry was stored while the backend was down
SmallStore ==
    StoreOf(<<DiskEntry(SumGato, TRUE, StartTime - 200, 0),
              DiskEntry(SumRosario, FALSE, StartTime - 10, 0)>>)

\* a store of an older version: an entry without retrievalCount, one
\* without a numeric timestamp, one without id, and a well-formed one
LegacyStore ==
    StoreOf(<<[DiskEntry(SumGato, TRUE, StartTime - 20, 0) EXCEPT !.rcIsNumber = FALSE],
              [DiskEntry(SumGatos, TRUE, StartTime - 15, 0) EXCEPT !.tsIsNumber = FALSE],
              [DiskEntry(SumRosario, TRUE, StartTime - 10, 0) EXCEPT !.id = 0],
              DiskEntry(SumRosario, TRUE, StartTime - 5, 1)>>)

OtherModelStore ==
    [SmallStore EXCEPT !.embeddingModel = "all-minilm"]

\* the store files a run may start with
StartStores ==
    {NoStore, CorruptStore, SmallStore, LegacyStore, OtherModelStore}

\* the store files of a long-running installation: at the cap or one below
FullStores ==
    {WrittenStore(MAX_MEMORIES - 1, {}),
     WrittenStore(MAX_MEMORIES, {}),
     WrittenStore(MAX_MEMORIES, {1}),
     WrittenStore(MAX_MEMORIES, {1, 2, MAX_MEMORIES}),
     WrittenStore(MAX_MEMORIES, 1..MAX_MEMORIES)}

InitMem ==
    /\ KInit(<<>>) /\ SqlInit /\ GwInit(NoOwner, NoSessions) /\ RagInit
    /\ \E disk \in StartStores : MemInit(disk)
    /\ \E backend \in {"down", "up"} : EnvInit(backend, Dir(EmptyMap), NoCache)

NextMem ==
    \/ RagOnModuleInit
    \/ InitProbeReturn
    \/ \E s \in {"down", "up"} : OllamaChange(s)
    \/ MemOnModuleInit
    \/ \E c \in AddCallers : \E ex \in Exchanges : AddCall(c, ex)
    \/ \E c \in AddCallers : \E llm \in LlmResults : AddSummary(c, llm)
    \/ \E c \in AddCallers : AddDupEmbedReturn(c)
    \/ \E c \in AddCallers : AddEmbedReturn(c)
    \/ \E q \in MemQueries : RetCall(q)
    \/ RetReturn
    \/ \E kw \in ForgetKeywords : ForgetByKeyword(kw)
    \/ Clear
    \/ MemSaveFire

SpecMem == InitMem /\ [][NextMem]_vars

(***************************************************************************)
(* MemoryRagService of a long-running installation: the store is at the    *)
(* cap, or one entry below it                                              *)
(***************************************************************************)
InitMemFull ==
    /\ KInit(<<>>) /\ SqlInit /\ GwInit(NoOwner, NoSessions) /\ RagInit
    /\ \E disk \in FullStores : MemInit(disk)
    /\ \E backend \in {"down", "up"} : EnvInit(backend, Dir(EmptyMap), NoCache)

NextMemFull ==
    \/ RagOnModuleInit
    \/ InitProbeReturn
    \/ Tick
    \/ MemOnModuleInit
    \/ \E c \in AddCallers : \E ex \in {[user |-> UserGato, asst |-> AsstGato]} : AddCall(c, ex)
    \/ \E c \in AddCallers : \E llm \in {[ok |-> TRUE, content |-> SumRosario]} : AddSummary(c, llm)
    \/ \E c \in AddCallers : AddDupEmbedReturn(c)
    \/ \E c \in AddCallers : AddEmbedReturn(c)
    \/ \E kw \in {<<"r", "o", "s">>} : ForgetByKeyword(kw)
    \/ \E q \in {QueryGato} : RetCall(q)
    \/ RetReturn
    \/ Clear
    \/ MemSaveFire

SpecMemFull == InitMemFull /\ [][NextMemFull]_vars

(***************************************************************************)
(* MemoryRagService answering retrievals from stores of several memories   *)
(***************************************************************************)
\* a store of six memories, two of them older than a week, one stored while
\* the backend was down
MixedStore ==
    StoreOf(<<DiskEntry(SumGatos, TRUE, StartTime - 200, 0),
              DiskEntry(SumHora, TRUE, StartTime - 10, 0),
              DiskEntry(SumGato, TRUE, StartTime - 190, 2),
              DiskEntry(SumRosario, TRUE, StartTime - 5, 0),
              DiskEntry(SumHora, FALSE, StartTime - 3, 0),
              DiskEntry(SumGatos, TRUE, StartTime - 2, 1)>>)

\* a store of one memory
HoraStore == StoreOf(<<DiskEntry(SumHora, TRUE, StartTime - 3, 0)>>)

\* a store no memory of which has an embedding
BareStore == StoreOf(<<DiskEntry(SumRosario, FALSE, StartTime - 10, 0)>>)

RetStores == {MixedStore, HoraStore, BareStore}

InitMemRet ==
    /\ KInit(<<>>) /\ SqlInit /\ GwInit(NoOwner, NoSessions) /\ RagInit
    /\ \E disk \in RetStores : MemInit(disk)
    /\ \E backend \in {"down", "up"} : EnvInit(backend, Dir(EmptyMap), NoCache)

NextMemRet ==
    \/ RagOnModuleInit
    \/ InitProbeReturn
    \/ \E s \in {"down", "up"} : OllamaChange(s)
    \/ Tick
    \/ MemOnModuleInit
    \/ \E c \in AddCallers : \E ex \in {[user |-> UserGato, asst |-> AsstGato]} : AddCall(c, ex)
    \/ \E c \in AddCallers : \E llm \in {[ok |-> TRUE, content |-> SumGatos]} : AddSummary(c, llm)
    \/ \E c \in AddCallers : AddDupEmbedReturn(c)
    \/ \E c \in AddCallers : AddEmbedReturn(c)
    \/ \E q \in MemQueries : RetCall(q)
    \/ RetReturn
    \/ \E kw \in ForgetKeywords : ForgetByKeyword(kw)
    \/ Clear
    \/ MemSaveFire

SpecMemRet == InitMemRet /\ [][NextMemRet]_vars

(***************************************************************************)
(* The two cosineSimilarity methods alone                                  *)
(***************************************************************************)
InitCos ==
    /\ KInit(<<>>) /\ SqlInit /\ GwInit(NoOwner, NoSessions) /\ RagInit /\ MemInit(NoStore)
    /\ EnvInit("down", NoDir, NoCache)

NextCos ==
    \/ \E a \in CosVectors : \E b \in CosVectors : RagCosine(a, b)
    \/ \E a \in CosVectors : \E b \in CosVectors : MemCosine(a, b)

SpecCos == InitCos /\ [][NextCos]_vars

(***************************************************************************)
(* HoloGateway: connections, disconnections and chats                      *)
(***************************************************************************)
ChatOutcomes == {"answer", "errorText", "throw"}

InitGateway ==
    /\ KInit(<<>>) /\ SqlInit /\ GwInit(NoOwner, NoSessions) /\ RagInit /\ MemInit(NoStore)
    /\ EnvInit("down", NoDir, NoCache)

NextGateway ==
    \/ \E k \in SocketIds : \E requested \in SessionIds \cup {""} : GwConnect(k, requested)
    \/ \E k \in SocketIds : GwDisconnect(k)
    \/ \E h \in ChatSlots : \E k \in SocketIds : GwChatCall(h, k)
    \/ \E h \in ChatSlots : \E outcome \in ChatOutcomes : GwChatReturn(h, outcome)

SpecGateway == InitGateway /\ [][NextGateway]_vars

(***************************************************************************)
(* ConversationStore: one conversation that starts empty                   *)
(***************************************************************************)
EmptySession(name, connected) ==
    [exists |-> TRUE, name |-> name, connected |-> connected,
     llmHistory |-> <<>>, chatHistory |-> <<>>]

InitConv ==
    /\ KInit(<<>>) /\ SqlInit /\ RagInit /\ MemInit(NoStore)
    /\ EnvInit("down", NoDir, NoCache)
    /\ \E owner \in {NoOwner, "ana"} : \E name \in {"", "tab"} : \E connected \in BOOLEAN :
          GwInit(owner, [NoSessions EXCEPT !["u1"] = EmptySession(name, connected)])

NextConv ==
    \/ \E role \in {"user", "assistant"} : ConvAdd("u1", role)
    \/ ConvClear("u1")

SpecConv == InitConv /\ [][NextConv]_vars

(***************************************************************************)
(* Start-up and the first requests, with weak fairness on the background   *)
(* tasks (the hooks, the pending awaits, the debounce timer); requests and *)
(* the backend's changes are not fair.                                     *)
(***************************************************************************)
BootStores == {NoStore, SmallStore}

InitBoot ==
    /\ KInit(<<>>) /\ SqlInit /\ GwInit(NoOwner, NoSessions) /\ RagInit
    /\ \E disk \in BootStores : MemInit(disk)
    /\ \E backend \in {"down", "up"} : EnvInit(backend, Dir(EmptyMap), NoCache)

BootBackground ==
    \/ InitProbeReturn
    \/ \E c \in GatewayCallers : IndexProbeReturn(c)
    \/ \E c \in AddCallers : \E llm \in {[ok |-> TRUE, content |-> SumGatos]} : AddSummary(c, llm)
    \/ \E c \in AddCallers : AddDupEmbedReturn(c)
    \/ \E c \in AddCallers : AddEmbedReturn(c)
    \/ MemSaveFire

NextBoot ==
    \/ RagOnModuleInit
    \/ MemOnModuleInit
    \/ BootBackground
    \/ \E c \in GatewayCallers : IndexCall(c)
    \/ \E c \in AddCallers : \E ex \in {[user |-> UserGato, asst |-> AsstGato]} : AddCall(c, ex)
    \/ \E s \in {"down", "up"} : OllamaChange(s)

FairBoot ==
    /\ InitBoot
    /\ [][NextBoot]_vars
    /\ WF_vars(RagOnModuleInit)
    /\ WF_vars(MemOnModuleInit)
    /\ WF_vars(BootBackground)

(***************************************************************************)
(* The claims                                                              *)
(***************************************************************************)
\* the indexDocuments calls that are past `this.indexing = true` and have
\* not returned
RunningPasses == {c \in Callers : idx[c].pc \in PassPcs}

\* C1: at most one indexDocuments pass is in progress at any time, whatever
\* the connection state when each call started: no two calls are both past
\* the guard, reading files or requesting embeddings.
C1_SinglePass == Cardinality(RunningPasses) <= 1

\* the message gives no keyword that scores on any table of the catalog
NoKeywordMatches(tables, message) ==
    \A i \in 1..Len(tables) : TableScore(tables[i], extractKeywords(message)) = 0

\* C2: getFilteredSchema on an active schema of more than 15 tables, with a
\* non-empty message no keyword of which matches any table, lists exactly
\* the first 15 tables in catalog order (and so never zero tables).
C2_FallbackFirstTables ==
    (/\ sqlOut.op = "filter"
     /\ sqlOut.res.some
     /\ Len(sqlOut.tables) > MAX_TABLES
     /\ sqlOut.msg # <<>>
     /\ NoKeywordMatches(sqlOut.tables, sqlOut.msg))
    => sqlOut.res.listed = SliceFirst(sqlOut.tables, MAX_TABLES)

\* C3: loadFromCache accepts the persisted cache only if the cached model is
\* the configured one, as many corpus files are present as the cache names
\* (a missing directory counting as none present), and every present file
\* has its cached mtime.
C3_AcceptOnlyFreshCache ==
    (loadEv.ran /\ loadEv.accepted)
    => LET present == CorpusFiles(loadEv.dir)
           cached == loadEv.cache.indexedFiles
       IN  /\ loadEv.cache.embeddingModel = embeddingModel
           /\ Len(present) = Cardinality(DOMAIN cached)
           /\ \A f \in Range(present) :
                 f \in DOMAIN cached /\ cached[f] = loadEv.dir.files[f].mtime

\* the store right after the push of addEntry (line 351), before the cap
\* is enforced, for the insertion the last event reports
Pushed ==
    Append(memEv.pre,
           [oid |-> memEv.oid, id |-> memEv.t, summary |-> memEv.summary,
            embedding |-> memEv.embedding, timestamp |-> memEv.t, retrievalCount |-> 0])

\* the last event is an insertion into a store of exactly MAX_MEMORIES entries
StoredAtCap ==
    /\ memEv.op = "addMemory"
    /\ memEv.out = "stored"
    /\ Len(memEv.pre) = MAX_MEMORIES

\* (retrievalCount, timestamp) of a is not above that of b, lexicographically
LexLeq(a, b) ==
    \/ a.retrievalCount < b.retrievalCount
    \/ a.retrievalCount = b.retrievalCount /\ a.timestamp <= b.timestamp

\* C4: when an insertion takes the store above 200 entries, the single entry
\* removed minimises (retrievalCount, timestamp) lexicographically: the
\* oldest when no entry was ever retrieved, and never an entry retrieved at
\* least once while some entry was never retrieved.
C4_EvictsLeastUseful ==
    StoredAtCap
    => LET pushed == Pushed
           gone == Evicted(pushed, memEntries)
       IN  /\ Len(gone) = 1
           /\ \A i \in 1..Len(pushed) : LexLeq(gone[1], pushed[i])
           /\ (\E i \in 1..Len(pushed) : pushed[i].retrievalCount = 0)
                 => gone[1].retrievalCount = 0

\* an insertion at the cap kept the oldest entry, which had been retrieved,
\* and removed a later entry
C4_Witness ==
    /\ StoredAtCap
    /\ memEv.pre[1].retrievalCount >= 1
    /\ memEv.pre[1].oid \in Oids(memEntries)
    /\ \E i \in 2..Len(memEv.pre) : memEv.pre[i].oid \notin Oids(memEntries)

\* the last event is an addMemory whose duplicate check found a last entry
\* with an embedding and an embeddings instance, and whose embedQuery answered
DupCheckRan ==
    /\ memEv.op = "addMemory"
    /\ memEv.out \in {"stored", "duplicate"}
    /\ memEv.check.last # <<>>
    /\ memEv.check.inst
    /\ memEv.check.last[1].embedding # <<>>

\* C5: when the last stored entry has an embedding and an embeddings
\* instance exists, a candidate whose summary embedding has similarity > 0.9
\* with that last entry is discarded (entries unchanged, no save scheduled),
\* and one with similarity <= 0.9 is stored with that embedding; only the
\* last entry is compared.
C5_DuplicateAgainstLast ==
    DupCheckRan
    => LET newEmbedding == EmbedText(memEv.summary)
           similarity == memCosineSimilarity(newEmbedding, memEv.check.last[1].embedding)
       IN  IF similarity > DUPLICATE_THRESHOLD
           THEN /\ memEv.out = "duplicate"
                /\ memEntries = memEv.pre
                /\ memSaveTimer = memEv.timer
           ELSE /\ memEv.out = "stored"
                /\ memEv.embedding = newEmbedding
                /\ memEntries[Len(memEntries)].oid = memEv.oid
                /\ memEntries[Len(memEntries)].embedding = newEmbedding

\* a candidate was discarded for its similarity to the last entry, while
\* an earlier entry of the store is not similar to it
C5_Witness ==
    /\ DupCheckRan
    /\ memEv.out = "duplicate"
    /\ Len(memEv.pre) >= 2
    /\ memCosineSimilarity(EmbedText(memEv.summary), memEv.pre[1].embedding)
          <= DUPLICATE_THRESHOLD

\* C6: the store never holds more than 200 entries, and an insertion into a
\* store of exactly 200 entries removes exactly one entry.
C6_CapAndSingleEviction ==
    /\ Len(memEntries) <= MAX_MEMORIES
    /\ StoredAtCap
       => /\ Len(memEntries) = MAX_MEMORIES
          /\ Len(Evicted(Pushed, memEntries)) = 1

\* an insertion into a full store has happened and the store is full again
C6_Witness ==
    /\ StoredAtCap
    /\ Len(memEntries) = MAX_MEMORIES
    /\ memEv.oid \in Oids(memEntries)

\* the last event is an addMemory that passed the admission filter and got
\* a summary of at least 10 characters
SummaryObtained ==
    /\ memEv.op = "addMemory"
    /\ Len(memEv.summary) >= MinSummaryLength

\* the call went to step 3 (lines 139-148): the duplicate check did not
\* take the embedding
ReachedStep3 ==
    \/ memEv.check.last = <<>>
    \/ ~memEv.check.inst
    \/ memEv.check.last[1].embedding = <<>>

\* C7: for an admitted exchange with a summary of at least 10 characters, a
\* failed or unavailable embedding backend does not drop the memory: it is
\* stored with an empty embedding, both when the connected flag is false
\* and when the flag is true but embedQuery itself fails.
C7_BackendFailureKeepsMemory ==
    /\ (SummaryObtained /\ ReachedStep3 /\ ~memEv.check.connected)
          => (memEv.out = "stored" /\ memEv.embedding = <<>>)
    /\ (SummaryObtained /\ memEv.check.connected /\ memEv.threw)
          => (memEv.out = "stored" /\ memEv.embedding = <<>>)

\* the objects a behaviour of FairBoot can put in the store
BootOids == 1..(Len(SmallStore.entries) + MaxMemOps)

HeldWithoutEmbedding(o) ==
    \E i \in 1..Len(memEntries) : memEntries[i].oid = o /\ memEntries[i].embedding = <<>>

HeldWithEmbedding(o) ==
    \E i \in 1..Len(memEntries) : memEntries[i].oid = o /\ memEntries[i].embedding # <<>>

\* the backend is connected and answers embedQuery
BackendAnswering == ollamaConnected /\ embeddings /\ ollama = "up"

\* C8: every entry stored with an empty embedding eventually gets a
\* non-empty one once the backend is connected and answering, under weak
\* fairness of the background tasks and with MemoryRagService.onModuleInit
\* running its backfill while RagService's probe is in flight.
C8_BackfillEventually ==
    \A o \in BootOids :
        (HeldWithoutEmbedding(o) /\ BackendAnswering)
            ~> (HeldWithEmbedding(o) \/ ~BackendAnswering)

\* C9: every chunk of the derived chunk list has content that is non-empty
\* after trimming, for every text given to setContent or loaded at startup.
C9_ChunksNonEmpty ==
    \A i \in 1..Len(kChunks) : Trim(kChunks[i].content) # <<>>

\* what the last retrieveContext call read on entry: the engine was
\* unavailable
RcUnavailable == ~rc.connected \/ ~rc.inst \/ rc.count = 0

\* C10: RagService.retrieveContext never throws: every call that has ended
\* has returned; with the engine unavailable (not connected, no embeddings
\* instance, or zero entries) it returned null without calling the backend,
\* and it returned null when the query embedding call failed.
C10_RetrieveContextReturns ==
    /\ (rc.pc = "idle" /\ rc.q # Null) => rc.returned
    /\ (rc.returned /\ RcUnavailable) => (~rc.called /\ rc.res = NoContext)
    /\ (rc.returned /\ rc.failed) => rc.res = NoContext

\* a call found the backend connected and no entry, and returned null
\* without asking for an embedding
C10_Witness ==
    /\ rc.returned
    /\ rc.connected /\ rc.inst /\ rc.count = 0
    /\ ~rc.called
    /\ rc.res = NoContext

\* C11: when clear() returns, the in-memory store is empty, no debounced
\* save remains pending, and, unless the write threw, the store file holds
\* zero entries, written in the same step.
C11_ClearFlushes ==
    memEv.op = "clear"
    => /\ memEntries = <<>>
       /\ ~memSaveTimer
       /\ memEv.ok => (memDisk.kind = "json" /\ memDisk.entries = <<>>)

\* clear() ran on a non-empty store with a debounced save pending, and the
\* write went through
C11_Witness ==
    /\ memEv.op = "clear"
    /\ memEv.ok
    /\ memEv.pre # <<>>
    /\ memEv.timer
    /\ memDisk = ToDisk(<<>>)

\* caller c's pass takes a step: it was reading files or embedding batches
PassStep(c) == idx[c].pc \in {"read", "embed"} /\ idx'[c] # idx[c]

\* the step is the commit of the pass (lines 227-229)
PassCommits(c) == PassStep(c) /\ idx'[c].pc = "save"

\* readFile or stat of the file the pass is at throws
ReadFails(c) == idx[c].pc = "read" /\ idx[c].files[idx[c].fi] \notin DOMAIN fsDir.files

\* embedDocuments of the batch the pass is at throws
EmbedFails(c) == idx[c].pc = "embed" /\ ollama # "up"

\* the entries hold, for each file of the pass, every chunk of the file
CoversFiles(entries, files) ==
    /\ {entries[i].source : i \in 1..Len(entries)} = Range(files)
    /\ \A f \in Range(files) :
          Cardinality({i \in 1..Len(entries) : entries[i].source = f}) = NumChunks(f)
    /\ \A i \in 1..Len(entries) : entries[i].embedding = EmbedChunk(entries[i].content)

\* C12: an indexing pass commits all or nothing.  Every step of a pass other
\* than its commit leaves entries, indexedFiles, lastIndexed and the cache
\* file as they are; a failed readFile or embedding batch ends the call with
\* success:false and no commit; the commit replaces entries and indexedFiles
\* in one step, with every chunk of every file of the pass embedded.
C12_AllOrNothing ==
    [][\A c \in Callers :
          /\ (PassStep(c) /\ ~PassCommits(c))
                => UNCHANGED <<ragEntries, indexedFiles, lastIndexed, cacheFile>>
          /\ (PassStep(c) /\ (ReadFails(c) \/ EmbedFails(c)))
                => (idx'[c].res = "error" /\ idx'[c].pc = "idle")
          /\ PassCommits(c)
                => /\ ragEntries' = idx'[c].newEntries
                   /\ indexedFiles' = idx'[c].newFiles
                   /\ CoversFiles(ragEntries', idx[c].files)
                   /\ DOMAIN indexedFiles' = Range(idx[c].files)
                   /\ lastIndexed' = now]_vars

\* a pass failed while the engine held the snapshot of an earlier pass, and
\* the snapshot, its file map and the cache file are those of that pass
C12_Witness ==
    \E c \in Callers :
        /\ idx[c].res = "error"
        /\ ragEntries # <<>>
        /\ cacheFile.kind = "json"
        /\ ragEntries = cacheFile.entries
        /\ indexedFiles = cacheFile.indexedFiles

\* the corpus file names of the model
CorpusNames == {f \in Files : IsCorpusFile(f)}

\* the number of entries a complete pass puts before those of file f, when
\* it indexes the files named in names in listing order
EntriesBefore(f, names) ==
    LET pos(g) == CHOOSE i \in 1..Len(FileOrder) : FileOrder[i] = g
        before == {g \in names : pos(g) < pos(f)}
    IN  IF before = {} THEN 0
        ELSE IF Cardinality(before) = 1 THEN NumChunks(CHOOSE g \in before : TRUE)
        ELSE LET g1 == CHOOSE g \in before : TRUE
             IN  NumChunks(g1) + NumChunks(CHOOSE g \in before \ {g1} : TRUE)

\* the entry of chunk k of file f at version ver
EntryOf(f, ver, k) ==
    [content |-> <<f, ver, k>>, embedding |-> EmbedChunk(<<f, ver, k>>), source |-> f]

\* entries is what a complete pass builds from the files named in names,
\* in listing order: every chunk of each file, all of one version of it
IsSnapshotOf(entries, names) ==
    /\ \A i \in 1..Len(entries) : entries[i].source \in names
    /\ \A f \in names :
          LET off == EntriesBefore(f, names)
          IN  /\ Len(entries) >= off + NumChunks(f)
              /\ \A k \in 1..NumChunks(f) :
                    entries[off + k] = EntryOf(f, entries[off + 1].content[2], k)
              /\ Cardinality({i \in 1..Len(entries) : entries[i].source = f}) = NumChunks(f)

IsSnapshot(entries) ==
    IsSnapshotOf(entries, {entries[i].source : i \in 1..Len(entries)})

\* C13: retrieveContext never observes a partially built index and does not
\* wait for a pass: in every reachable state entries is a complete snapshot
\* of the files indexedFiles names, and every answer, also one given while
\* a pass was reading files or embedding batches, is computed from a
\* complete snapshot.
C13_NeverPartialIndex ==
    /\ IsSnapshotOf(ragEntries, DOMAIN indexedFiles)
    /\ (rc.returned /\ rc.called)
          => /\ IsSnapshot(rc.used)
             /\ rc.res = RetrieveOutcome(~rc.failed, rc.used, EmbedQueryText(rc.q))

\* a call was answered with a context while a pass was reading files or
\* embedding batches
C13_Witness ==
    /\ rc.returned
    /\ rc.busy
    /\ rc.res # NoContext
    /\ Len(rc.used) > 0

\* the catalog reads in progress for connection conn
ReadsOf(conn) == {r \in Readers : sqlReads[r].pc = "reading" /\ sqlReads[r].conn = conn}

\* C14: schema refreshes on one SqlService are mutually exclusive: while a
\* refreshSchema or the connect-time schema read of a connection is in
\* progress, no second catalog read of that connection runs.
C14_RefreshExclusive ==
    \A conn \in ConnIds : Cardinality(ReadsOf(conn)) <= 1

\* the step is the load of the store file at start-up
LoadStep == memBoot = "new" /\ memBoot' = "ready"

\* C15: the retrievalCount of an entry never decreases from one state to
\* the next while the entry is in the store, whatever addMemory,
\* retrieveMemories, forgetByKeyword do; and the load of the store file
\* gives every entry it keeps at least the count the file records for it
\* (zero when the file records none).
C15_RetrievalCountMonotone ==
    [][/\ \A i \in 1..Len(memEntries) : \A j \in 1..Len(memEntries') :
             memEntries'[j].oid = memEntries[i].oid
                => memEntries'[j].retrievalCount >= memEntries[i].retrievalCount
       /\ LoadStep
             => \A j \in 1..Len(memEntries') : \A k \in 1..Len(memDisk.entries) :
                    (memDisk.entries[k].id = memEntries'[j].id
                     /\ memDisk.entries[k].rcIsNumber)
                       => memEntries'[j].retrievalCount
                             >= memDisk.entries[k].retrievalCount]_vars

\* an entry loaded with a count of one was returned by a retrieval and now
\* has a count of two, next to an entry whose missing count was set to zero
C15_Witness ==
    /\ memEv.op = "retrieve"
    /\ memEv.returned # <<>>
    /\ \E i \in 1..Len(memEntries) : memEntries[i].retrievalCount = 2
    /\ \E i \in 1..Len(memEntries) : memEntries[i].retrievalCount = 0

\* the last event is the end of a retrieveMemories call
RetEnded == memEv.op = "retrieve"

\* the raw similarity and the blended score of a candidate, for the query
\* and the time of the call the last event reports
RawSimilarity(e) == memCosineSimilarity(EmbedText(memEv.q), e.embedding)
Blended(e) == FinalScore(RawSimilarity(e), memEv.t, e.timestamp)

\* the candidates the call captured that pass the threshold, by index
PassingIdx ==
    {i \in 1..Len(memEv.valid) : RawSimilarity(memEv.valid[i]) >= SIMILARITY_THRESHOLD}

ReturnedOids == {memEv.returned[i].entry.oid : i \in 1..Len(memEv.returned)}

\* C16: retrieveMemories with the default K = 3 returns at most K memories,
\* each a captured entry of raw similarity >= 0.55 whatever its recency, in
\* descending blended score similarity * 0.85 + recency * 0.15, and no
\* passing entry left out has a blended score above a returned one; it
\* returns null when no entry passes, when the backend is not connected
\* and when no entry has an embedding, and a list otherwise (the query
\* embedding having been obtained).
C16_TopKByBlendedScore ==
    RetEnded
    => LET R == memEv.returned
       IN  /\ Len(R) <= DefaultTopK
           /\ Len(memEv.res) = Len(R)
           /\ Cardinality(ReturnedOids) = Len(R)
           /\ \A i \in 1..Len(R) :
                 /\ \E k \in PassingIdx : memEv.valid[k] = R[i].entry
                 /\ RawSimilarity(R[i].entry) >= SIMILARITY_THRESHOLD
                 /\ memEv.res[i] = <<i, R[i].entry.summary>>
           /\ \A i \in 1..Len(R) : \A j \in 1..Len(R) :
                 i < j => Blended(R[i].entry) >= Blended(R[j].entry)
           /\ \A k \in PassingIdx :
                 (memEv.called /\ ~memEv.failed /\ memEv.valid[k].oid \notin ReturnedOids)
                    => /\ Len(R) = DefaultTopK
                       /\ \A i \in 1..Len(R) :
                             Blended(R[i].entry) >= Blended(memEv.valid[k])
           /\ (~memEv.inst \/ ~memEv.connected \/ memEv.valid = <<>> \/ PassingIdx = {})
                 => memEv.res = <<>>
           /\ (memEv.called /\ ~memEv.failed /\ PassingIdx # {}) => memEv.res # <<>>

\* a retrieval returned three memories and left passing ones out, and one
\* it returned is less similar to the query than one it left out: recency
\* decided between them
C16_Witness ==
    /\ RetEnded
    /\ Len(memEv.returned) = DefaultTopK
    /\ \E k \in PassingIdx : \E i \in 1..Len(memEv.returned) :
          /\ memEv.valid[k].oid \notin ReturnedOids
          /\ RawSimilarity(memEv.valid[k]) > RawSimilarity(memEv.returned[i].entry)

\* the step is a retrieveMemories call running to its first await or to an
\* early return, or the same call ending once embedQuery has answered
RetCallStep == memOps' # memOps /\ memEv'.op \in {"retrieve", "retrieve.call"}
RetReturnStep == ret.pc = "embed" /\ ret'.pc = "idle"

\* C17: a retrieveMemories call adds exactly 1 to the retrievalCount of
\* each entry it returns and changes nothing else: the other counts, every
\* id, summary, embedding and timestamp, the membership and the order of
\* the store, the store file; a call that returns null changes no entry
\* and schedules no save, and a call that returns memories schedules one.
C17_RetrievalFrame ==
    [][(RetCallStep \/ RetReturnStep)
         => LET hit == IF RetReturnStep
                       THEN {memEv'.returned[i].entry.oid : i \in 1..Len(memEv'.returned)}
                       ELSE {}
            IN  /\ Len(memEntries') = Len(memEntries)
                /\ \A i \in 1..Len(memEntries) :
                      memEntries'[i] =
                         IF memEntries[i].oid \in hit
                         THEN [memEntries[i] EXCEPT !.retrievalCount = @ + 1]
                         ELSE memEntries[i]
                /\ UNCHANGED <<memDisk, memNext, memBoot, add, bf>>
                /\ (memEv'.op = "retrieve" /\ memEv'.res = <<>>)
                      => UNCHANGED <<memEntries, memSaveTimer>>
                /\ (memEv'.op = "retrieve" /\ memEv'.res # <<>>) => memSaveTimer'
                /\ memEv'.op = "retrieve.call" => UNCHANGED <<memEntries, memSaveTimer>>]_vars

\* a retrieval returned some of the entries of the store and not others:
\* the returned ones have one retrieval more than before, the others, and
\* the length of the store, are as before
C17_Witness ==
    /\ RetEnded
    /\ memEv.res # <<>>
    /\ Len(memEntries) = Len(memEv.pre)
    /\ \E i \in 1..Len(memEntries) :
          /\ memEntries[i].oid \in ReturnedOids
          /\ memEntries[i].retrievalCount = memEv.pre[i].retrievalCount + 1
    /\ \E i \in 1..Len(memEntries) :
          /\ memEntries[i].oid \notin ReturnedOids
          /\ memEntries[i] = memEv.pre[i]

\* the lexical score of a chunk content for query tokens q, before the
\* division by the number of query tokens: 2 for every pair of a query
\* token and an equal chunk token, 1 for every other pair in which one
\* contains the other
LexicalSum(q, content) ==
    LET c == tokenize(content)
        pairs == (1..Len(q)) \X (1..Len(c))
    IN  2 * Cardinality({pr \in pairs : q[pr[1]] = c[pr[2]]})
        + Cardinality({pr \in pairs :
                          /\ q[pr[1]] # c[pr[2]]
                          /\ (Includes(c[pr[2]], q[pr[1]]) \/ Includes(q[pr[1]], c[pr[2]]))})

\* the positions of the chunks that reach a normalized score of 1.0, given
\* the sum of each chunk and the number of query tokens
KPassing(sums, n) == {k \in 1..Len(sums) : n > 0 /\ sums[k] >= n}

\* the sums of the chunks the last call was answered from
KSums ==
    [k \in 1..Len(kOut.chunks) |->
        LexicalSum(tokenize(kOut.query), kOut.chunks[k].content)]

\* C18: KnowledgeService.retrieveContext returns at most 4 chunks, each of
\* normalized lexical score >= 1.0, in descending score order, no chunk
\* left out scoring strictly higher than a returned one; the text is the
\* returned contents joined by a blank line; the result is null when the
\* query has no token longer than 2 characters, when there are no chunks
\* and when no chunk reaches 1.0, and only then.
C18_TopFourLexical ==
    kOut.op = "retrieve"
    => \E n \in {Len(tokenize(kOut.query))} : \E sums \in {KSums} :
       LET R == kOut.returned
           at == {R[i].index + 1 : i \in 1..Len(R)}
           passing == KPassing(sums, n)
       IN  /\ Len(R) <= 4
           /\ Cardinality(at) = Len(R)
           /\ \A i \in 1..Len(R) :
                 /\ R[i].index + 1 \in passing
                 /\ R[i].content = kOut.chunks[R[i].index + 1].content
                 /\ R[i].score = sums[R[i].index + 1]
           /\ \A i \in 1..Len(R) : \A j \in 1..Len(R) :
                 i < j => R[i].score >= R[j].score
           /\ \A k \in 1..Len(kOut.chunks) : \A i \in 1..Len(R) :
                 k \notin at => sums[k] <= R[i].score
           /\ \A k \in passing : k \notin at => Len(R) = 4
           /\ kOut.res = Join([i \in 1..Len(R) |-> R[i].content], <<NL, NL>>)
           /\ (R = <<>>) <=> (n = 0 \/ kOut.chunks = <<>> \/ passing = {})

\* a call returned four chunks out of seven, left out a chunk that reaches
\* 1.0 too, and the last one it returned scores exactly 1.0
C18_Witness ==
    /\ kOut.op = "retrieve"
    /\ Len(kOut.returned) = 4
    /\ Cardinality(KPassing(KSums, Len(tokenize(kOut.query)))) > 4
    /\ kOut.returned[4].score = Len(tokenize(kOut.query))

\* the similarity of every entry the last retrieveContext call scored, as a
\* percentage
RcSims ==
    [i \in 1..Len(rc.used) |->
        ragCosineSimilarity(EmbedQueryText(rc.q), rc.used[i].embedding)]

\* C19: when available, RagService.retrieveContext returns at most 4
\* entries, each with cosine similarity >= 0.3 to the query embedding, in
\* descending similarity order, each rendered as '[source]: content'; no
\* entry left out has a similarity strictly higher than a returned one; it
\* returns null when no entry reaches 0.3.
C19_TopFourBySimilarity ==
    (rc.returned /\ rc.called /\ ~rc.failed)
    => \E sims \in {RcSims} :
       \E at \in {[j \in 1..Len(rc.res) |->
                     {i \in 1..Len(rc.used) :
                        rc.res[j] = <<"[", rc.used[i].source, "]: ",
                                      rc.used[i].content>>}]} :
          /\ Len(rc.res) <= 4
          /\ \A j \in 1..Len(rc.res) :
                /\ Cardinality(at[j]) = 1
                /\ \A i \in at[j] : sims[i] >= 30
          /\ \A j \in 1..Len(rc.res) : \A k \in 1..Len(rc.res) :
                j < k => /\ at[j] # at[k]
                         /\ \A i \in at[j] : \A l \in at[k] : sims[i] >= sims[l]
          /\ \A i \in 1..Len(rc.used) \ UNION {at[j] : j \in 1..Len(rc.res)} :
                \A j \in 1..Len(rc.res) : \A l \in at[j] : sims[i] <= sims[l]
          /\ (\A i \in 1..Len(rc.used) : sims[i] < 30) => rc.res = NoContext
          /\ (\E i \in 1..Len(rc.used) : sims[i] >= 30) => rc.res # NoContext

\* a call returned four entries and left out one that reaches 0.3 too
C19_Witness ==
    /\ rc.returned /\ rc.called /\ ~rc.failed
    /\ Len(rc.res) = 4
    /\ \E i \in 1..Len(rc.used) :
          /\ RcSims[i] >= 30
          /\ \A j \in 1..Len(rc.res) :
                rc.res[j] # <<"[", rc.used[i].source, "]: ", rc.used[i].content>>

\* the lines of a text: one more than its line breaks
LineCount(text) == Cardinality({i \in 1..Len(text) : text[i] = NL}) + 1

\* the first line of a text
FirstLine(text) ==
    LET breaks == {i \in 1..Len(text) : text[i] = NL}
    IN  IF breaks = {} THEN text ELSE SubSeq(text, 1, SetMin(breaks) - 1)

\* C20: for every active schema and every userMessage (none, empty or
\* not), the text getFilteredSchema returns lists at most 15 tables, has
\* exactly one header line followed by one line per listed table, and the
\* header reports the listed count and the total table count.
C20_HeaderAndOneLinePerTable ==
    (sqlOut.op = "filter" /\ sqlOut.res.some)
    => /\ Len(sqlOut.res.listed) <= MAX_TABLES
       /\ sqlOut.res.total = Len(sqlOut.tables)
       /\ \E conn \in ConnIds :
             FirstLine(sqlOut.res.text)
                = HeaderLine(DbName(conn), Len(sqlOut.res.listed), Len(sqlOut.tables))
       /\ LineCount(sqlOut.res.text) = 1 + Len(sqlOut.res.listed)

\* the last getFilteredSchema call scored the tables: more than 15 tables
\* and a message given
ScoringTriggered ==
    /\ sqlOut.op = "filter"
    /\ sqlOut.res.some
    /\ Len(sqlOut.tables) > MAX_TABLES
    /\ sqlOut.msg # <<>>

\* how many of the keywords a field contains
Hits(field, kws) == Cardinality({kw \in kws : Includes(field, kw)})

\* the score summed over the keywords: 15 per keyword the description
\* contains, 10 per keyword the name contains, and for each column 5 per
\* keyword its description contains and 3 per keyword its name contains
RECURSIVE ColumnHits(_, _, _)
ColumnHits(cols, kws, i) ==
    IF i > Len(cols) THEN 0
    ELSE 5 * Hits(Unaccent(cols[i].description), kws)
         + 3 * Hits(ToLower(cols[i].name), kws)
         + ColumnHits(cols, kws, i + 1)

SummedScore(table, kws) ==
    15 * Hits(Unaccent(table.description), kws)
    + 10 * Hits(ToLower(table.name), kws)
    + ColumnHits(table.columns, kws, 1)

\* L is the tables of T of positive score sc, by descending score, ties in
\* catalog order, cut at 15
IsRankedSelection(T, L, sc) ==
    \E pos \in {[j \in 1..Len(L) |-> {i \in 1..Len(T) : T[i] = L[j]}]} :
       /\ Len(L) <= MAX_TABLES
       /\ \A j \in 1..Len(L) :
             /\ Cardinality(pos[j]) = 1
             /\ \A i \in pos[j] : sc[i] > 0
       /\ \A j \in 1..Len(L) : \A k \in 1..Len(L) :
             j < k => \A i \in pos[j] : \A l \in pos[k] :
                         sc[i] > sc[l] \/ (sc[i] = sc[l] /\ i < l)
       /\ \A i \in 1..Len(T) \ UNION {pos[j] : j \in 1..Len(L)} :
             sc[i] > 0
             => /\ Len(L) = MAX_TABLES
                /\ \A j \in 1..Len(L) : \A l \in pos[j] :
                      sc[l] > sc[i] \/ (sc[l] = sc[i] /\ l < i)

\* C21 as stated: when scoring is triggered, a table's score is 15 if any
\* keyword is a substring of its description, plus 10 if any keyword is a
\* substring of its name, plus 5 for each column whose description contains
\* a keyword, plus 3 for each column whose name contains a keyword; tables
\* scoring 0 are excluded, the rest ordered by descending score (ties in
\* catalog order) and truncated to 15.
C21_ScoredOncePerField ==
    ScoringTriggered
    => \E kws \in {extractKeywords(sqlOut.msg)} :
       \E sc \in {[i \in 1..Len(sqlOut.tables) |->
                      TableScoreOnce(sqlOut.tables[i], kws)]} :
          IsRankedSelection(sqlOut.tables, sqlOut.res.listed, sc)

\* C21 amended: the score is summed over the keywords (15 for every keyword
\* the description contains, 10 for every keyword the name contains, 5 and
\* 3 for every keyword a column's description and name contain); tables
\* scoring 0 are excluded, the rest ordered by descending score (ties in
\* catalog order) and truncated to 15.
C21_ScoredPerKeyword ==
    ScoringTriggered
    => \E kws \in {extractKeywords(sqlOut.msg)} :
       \E sc \in {[i \in 1..Len(sqlOut.tables) |->
                      SummedScore(sqlOut.tables[i], kws)]} :
          IsRankedSelection(sqlOut.tables, sqlOut.res.listed, sc)

\* a scored call listed 15 tables, the last table of the catalog first, and
\* left out tables of positive score
C21_Witness ==
    /\ ScoringTriggered
    /\ Len(sqlOut.res.listed) = MAX_TABLES
    /\ sqlOut.res.listed[1] = sqlOut.tables[Len(sqlOut.tables)]
    /\ \E i \in 1..Len(sqlOut.tables) :
          /\ SummedScore(sqlOut.tables[i], extractKeywords(sqlOut.msg)) > 0
          /\ \A j \in 1..MAX_TABLES : sqlOut.res.listed[j] # sqlOut.tables[i]

WVendedores == <<"v", "e", "n", "d", "e", "d", "o", "r", "e", "s">>
WVendedor == <<"v", "e", "n", "d", "e", "d", "o", "r">>

\* k is a proper prefix of w
IsProperPrefix(k, w) == Len(k) < Len(w) /\ SubSeq(w, 1, Len(k)) = k

\* C22: every keyword is either a query token of length >= 3 that is not a
\* stop word, or a prefix of such a token with length >= 4; for every such
\* token longer than 5 characters, every proper prefix of length >= 4 is a
\* keyword; so the token 'vendedores' yields the keyword 'vendedor', and a
\* table named 'vendedor' (any letter case) gets a nonzero score.
C22_KeywordsAreTokensAndPrefixes ==
    ScoringTriggered
    => \E kept \in {KeywordWords(sqlOut.msg)} :
       \E kws \in {extractKeywords(sqlOut.msg)} :
          /\ \A w \in kept : Len(w) >= 3 /\ w \notin stopWords /\ w \in kws
          /\ \A kw \in kws :
                \/ kw \in kept
                \/ Len(kw) >= 4 /\ \E w \in kept : IsProperPrefix(kw, w)
          /\ \A w \in kept :
                Len(w) > 5 => \A n \in 4..(Len(w) - 1) : SubSeq(w, 1, n) \in kws
          /\ WVendedores \in kept
                => /\ WVendedor \in kws
                   /\ \A i \in 1..Len(sqlOut.tables) :
                         ToLower(sqlOut.tables[i].name) = WVendedor
                         => /\ SummedScore(sqlOut.tables[i], kws) > 0
                            /\ \/ sqlOut.tables[i] \in Range(sqlOut.res.listed)
                               \/ Len(sqlOut.res.listed) = MAX_TABLES

\* a scored call whose message holds the token 'vendedores' listed the
\* table named 'Vendedor'
C22_Witness ==
    /\ ScoringTriggered
    /\ WVendedores \in KeywordWords(sqlOut.msg)
    /\ \E j \in 1..Len(sqlOut.res.listed) :
          /\ ToLower(sqlOut.res.listed[j].name) = WVendedor
          /\ sqlOut.res.listed[j].name # WVendedor

\* the step is a forgetByKeyword call
ForgetStep == memOps' # memOps /\ memEv'.op = "forget"

\* the positions of the store whose lower-cased summary contains the
\* lower-cased keyword
Matching(entries, keyword) ==
    {i \in 1..Len(entries) : Includes(ToLower(entries[i].summary), ToLower(keyword))}

\* C23: forgetByKeyword(k) removes exactly the entries whose lower-cased
\* summary contains lower-cased k, keeps every other entry unchanged and in
\* its original order, returns the number removed, and schedules a save if
\* and only if that number is positive.
C23_ForgetRemovesExactlyMatches ==
    [][ForgetStep
         => \E gone \in {Matching(memEntries, memEv'.keyword)} :
            LET stay == (1..Len(memEntries)) \ gone
                nth(j) == CHOOSE i \in stay : Cardinality({k \in stay : k <= i}) = j
            IN  /\ Len(memEntries') = Cardinality(stay)
                /\ \A j \in 1..Len(memEntries') : memEntries'[j] = memEntries[nth(j)]
                /\ memEv'.removed = Cardinality(gone)
                /\ memSaveTimer' = (memSaveTimer \/ Cardinality(gone) > 0)
                /\ UNCHANGED <<memDisk, memNext, memBoot, add, ret, bf>>]_vars

\* a call removed two entries that were not neighbours, kept the one
\* between them, and scheduled a save that was not pending
C23_Witness ==
    /\ memEv.op = "forget"
    /\ memEv.removed >= 2
    /\ ~memEv.timer /\ memSaveTimer
    /\ \E i \in 1..Len(memEv.pre) : \E j \in 1..Len(memEv.pre) : \E k \in 1..Len(memEv.pre) :
          /\ i < j /\ j < k
          /\ memEv.pre[j] \in Range(memEntries)
          /\ memEv.pre[i] \notin Range(memEntries)
          /\ memEv.pre[k] \notin Range(memEntries)
          /\ memEv.pre[i].summary # memEv.pre[k].summary

\* C24: after a burst of setContent calls followed by quiescence (no
\* debounce timer pending, every write completed), the persisted blob
\* equals the in-memory content of the last setContent, for every
\* interleaving of the debounce timer with the disk writes, a save still in
\* flight when a later save starts included; no write having failed.
C24_PersistedEqualsLastContent ==
    (kSets > 0 /\ ~kSaveTimer /\ kWrites = <<>> /\ ~kFailed)
    => kDisk = <<kContent>>

\* the doubles within 2^-51 of 1: 1 - k * 2^-53 for k up to 4 and
\* 1 + k * 2^-52 for k up to 2
NearOne ==
    {[s |-> 1, m |-> BSub({53}, BOfInt(k)), e |-> 0 - 53] : k \in 1..4}
    \cup {[s |-> 1, m |-> BAdd({52}, BOfInt(k)), e |-> 0 - 52] : k \in 0..2}

IsSquare(n) == \E r \in 0..n : r * r = n

\* a pair that must give 0: different lengths, an empty vector, a zero norm
ZeroCase(a, b) ==
    Len(a) # Len(b) \/ a = <<>> \/ b = <<>> \/ Dot(a, a) = 0 \/ Dot(b, b) = 0

\* C25 as stated: in both engines' cosineSimilarity, over bounded integer
\* vectors, sim(a,b) = sim(b,a); sim(a,a) = 1 for every non-zero vector a;
\* and the result is 0 whenever the lengths differ, either vector is empty,
\* or either norm is zero.
C25_CosineExact ==
    memEv.op = "cosine"
    => /\ memEv.ab = memEv.ba
       /\ Dot(memEv.a, memEv.a) # 0 => memEv.aa = DoubleOne
       /\ ZeroCase(memEv.a, memEv.b) => memEv.ab = DoubleZero

\* C25 amended: sim(a,b) = sim(b,a); sim(a,a) is within 2^-51 of 1 for
\* every non-zero vector a, and exactly 1 when the sum of the squares of a
\* is a perfect square; the result is 0 whenever the lengths differ, either
\* vector is empty, or either norm is zero.
C25_CosineUpToRounding ==
    memEv.op = "cosine"
    => /\ memEv.ab = memEv.ba
       /\ Dot(memEv.a, memEv.a) # 0
             => /\ memEv.aa \in NearOne
                /\ IsSquare(Dot(memEv.a, memEv.a)) => memEv.aa = DoubleOne
       /\ ZeroCase(memEv.a, memEv.b) => memEv.ab = DoubleZero

\* the similarity of <<1, 1>> and itself was computed and is not 1
C25_Witness ==
    /\ memEv.op = "cosine"
    /\ memEv.a = <<1, 1>> /\ memEv.b = <<1, 1>>
    /\ memEv.aa \in NearOne \ {DoubleOne}
    /\ memEv.ab = memEv.aa

\* the summarizer call of caller c throws
SummarizerFails(c) == AddSummary(c, [ok |-> FALSE, content |-> <<>>])

\* the first 150 characters of '<user> - <assistant>' for the call of c
RawFallback(c) ==
    LET raw == add[c].user \o <<" ", "-", " ">> \o add[c].asst
    IN  SubSeq(raw, 1, IF Len(raw) < FallbackLength THEN Len(raw) ELSE FallbackLength)

\* C26: when the summarizer LLM call fails for an admitted exchange, the
\* memory is not dropped at that step: the summary becomes the first 150
\* characters of '<user> - <assistant>' and addMemory continues to the
\* duplicate check and storage with it.
C26_FallbackSummaryOnFailure ==
    [][\A c \in AddCallers :
          SummarizerFails(c)
          => \/ /\ add'[c].pc \in {"dupEmbed", "embed"}
                /\ add'[c].summary = RawFallback(c)
                /\ memEntries' = memEntries
             \/ /\ add'[c].pc = "idle"
                /\ memEv'.op = "addMemory" /\ memEv'.out = "stored"
                /\ memEv'.summary = RawFallback(c)
                /\ memEntries'[Len(memEntries')].summary = RawFallback(c)]_vars

\* a memory whose summary is the 150-character fallback of the long
\* exchange was stored
C26_Witness ==
    /\ memEv.op = "addMemory" /\ memEv.out = "stored"
    /\ Len(memEv.summary) = FallbackLength
    /\ memEv.summary = SubSeq(UserLong \o <<" ", "-", " ">> \o AsstGato, 1, FallbackLength)
    /\ memEntries # <<>>
    /\ memEntries[Len(memEntries)].summary = memEv.summary

\* C27: every chunk produced by chunkText has a content length of at most
\* 500 characters, for every input text.
C27_ChunksWithinBudget ==
    \A i \in 1..Len(kChunks) : Len(kChunks[i].content) <= chunkSize

\* the call of addMemory in slot c ends by storing its memory
StoresMemory(c) ==
    /\ add[c].pc # "idle" /\ add'[c].pc = "idle"
    /\ memEv'.op = "addMemory" /\ memEv'.out = "stored"
    /\ memEntries' # <<>>
    /\ memEntries'[Len(memEntries')].summary = memEv'.summary

\* C28: after clear() returns, the store never again contains a memory
\* summarising an exchange that took place before the clear, even when an
\* addMemory for such an exchange was awaiting its summary or embedding at
\* the moment clear ran.  Here: when clear has just returned, a call of
\* addMemory that was in flight during it does not store its memory.
C28_ClearDropsCallsInFlight ==
    [][\A c \in AddCallers :
          (memEv.op = "clear" /\ add[c].pc # "idle") => ~StoresMemory(c)]_vars

\* C29: every memory included in the result of retrieveMemories is in the
\* store at the moment the result is returned: a memory removed by
\* forgetByKeyword, clear or eviction while the retrieval was awaiting the
\* query embedding is not returned.
C29_ReturnedAreInStore ==
    (memEv.op = "retrieve" /\ memEv.called)
    => \A i \in 1..Len(memEv.returned) :
          \E j \in 1..Len(memEntries) :
              /\ memEntries[j].oid = memEv.returned[i].entry.oid
              /\ memEntries[j].summary = memEv.res[i][2]

\* C30: under concurrent addMemory calls, no entry is appended directly
\* after an embedded entry with which it has cosine similarity > 0.9: the
\* entry a candidate was compared against is still the last entry when
\* the candidate is inserted.
C30_NoDuplicateAfterLast ==
    [][\A c \in AddCallers :
          (StoresMemory(c) /\ memEntries # <<>> /\ memEv'.embedding # <<>>
             /\ memEntries[Len(memEntries)].embedding # <<>>)
          => /\ memEv'.check.last # <<>>
             /\ memEv'.check.last[1].oid = memEntries[Len(memEntries)].oid
             /\ ~(memCosineSimilarity(memEv'.embedding,
                                      memEntries[Len(memEntries)].embedding)
                   > DUPLICATE_THRESHOLD)]_vars

\* C31: inserting a new memory into a full store (200 entries) always
\* leaves the new memory in the store: the entry evicted by addEntry is
\* one of the pre-existing entries, whatever the retrievalCounts of the
\* pre-existing entries are.
C31_NewMemoryKept ==
    StoredAtCap
    => /\ memEntries # <<>>
       /\ memEntries[Len(memEntries)].oid = memEv.oid
       /\ \E i \in 1..Len(memEv.pre) : memEv.pre[i].oid \notin Oids(memEntries)

\* handleRagReindex of caller c broadcasts indexing=false in this step: its
\* call of indexDocuments returns, at once or after its awaits
BroadcastsNotIndexing(c) ==
    \/ IndexCall(c) /\ idx'[c].pc = "idle"
    \/ idx[c].pc # "idle" /\ idx'[c].pc = "idle"

\* C32: the 'rag:indexing' flag last broadcast to clients is false only
\* when no indexing pass is running in RagService: a request rejected as
\* already indexing does not make clients see indexing=false while the
\* earlier pass is still in progress.
C32_BroadcastFalseOnlyWhenIdle ==
    [][\A c \in GatewayCallers : BroadcastsNotIndexing(c) => ~indexing']_vars

\* C33: refreshSchema returns success:true only if the catalog read
\* performed by that call completed and replaced the stored schema; when
\* any catalog query fails it returns success:false, and in that case the
\* previously stored schema for the connection is left unchanged.
C33_RefreshReportsFailure ==
    sqlOut.op = "refresh"
    => /\ sqlOut.success => sqlOut.ok
       /\ ~sqlOut.ok => ~sqlOut.success /\ sqlOut.kept

\* no connect, refresh or schema read is in progress
SqlAtRest == \A r \in Readers : sqlReads[r].pc = "idle"

\* C34: every client acquired from a connection pool by connectPool,
\* testConnection, readSchema or executeQuery is released before the
\* operation returns, on success and on every error path, so the number of
\* checked-out clients is 0 whenever no operation is in progress and never
\* stays at the pool maximum of 3.
C34_ClientsReleased ==
    /\ SqlAtRest => \A conn \in ConnIds : sqlClients[conn] = 0
    /\ \A conn \in ConnIds : sqlClients[conn] < PoolMax

\* every call of indexDocuments has returned, start-up included
AllIndexCallsReturned ==
    initPc = "done" /\ \A c \in Callers : idx[c].pc = "idle"

\* C35: every indexDocuments call that sets the indexing flag clears it on
\* every exit path, so once all calls have returned isIndexing() is false
\* and a later index request is admitted; and the flag is never false
\* while a pass that set it is still running.
C35_FlagTracksPasses ==
    /\ AllIndexCallsReturned => ~indexing
    /\ RunningPasses # {} => indexing

\* the sockets mapped to session u in socketToSession
SocketsOf(u) == {k \in SocketIds : gwSockets[k] = u}

\* C36: in every reachable state a session's connected flag is true if and
\* only if at least one connected socket is mapped to that session in
\* socketToSession, for every interleaving of connections and
\* disconnections, including two sockets that present the same sessionId.
C36_ConnectedIffSocket ==
    \A u \in SessionIds :
        gwSessions[u].exists => (gwSessions[u].connected <=> SocketsOf(u) # {})

\* the events emitted to socket k for chat number n, in order
EventsOf(k, n) ==
    LET at == {i \in 1..Len(gwEmitted[k]) : gwEmitted[k][i].chat = n}
        kept == KeepIdx(gwEmitted[k], at)
    IN  [i \in 1..Len(kept) |-> kept[i].ev]

\* the chats whose handler is suspended in LlmService.chat
PendingChats == {gwChat[h].chat : h \in {x \in ChatSlots : gwChat[x].pc = "llm"}}

\* the socket that sent chat number n: the one that was sent its events
SenderOf(n) ==
    CHOOSE k \in SocketIds : \E i \in 1..Len(gwEmitted[k]) : gwEmitted[k][i].chat = n

\* C37: for every 'chat' event the gateway emits to the sending socket, in
\* this order, chat:userMessage, chat:thinking{true}, chat:thinking{false}
\* and exactly one chat:response; no path (LLM success, LLM error, thrown
\* exception) leaves the client with thinking=true and no response.
C37_ChatEventsInOrder ==
    \A n \in 1..gwOps :
        /\ \A k \in SocketIds \ {SenderOf(n)} : EventsOf(k, n) = <<>>
        /\ EventsOf(SenderOf(n), n) =
              IF n \in PendingChats
              THEN <<"chat:userMessage", "chat:thinking:true">>
              ELSE <<"chat:userMessage", "chat:thinking:true",
                     "chat:thinking:false", "chat:response">>

\* two chats of one socket overlapped and both handlers have returned,
\* only one of them with an answer of the LLM
C37_Witness ==
    /\ gwOps = 2
    /\ PendingChats = {}
    /\ \E k \in SocketIds :
          /\ Len(gwEmitted[k]) = 8
          /\ gwEmitted[k][3].chat = 2
          /\ gwEmitted[k][8].ev = "chat:response"
    /\ \E u \in SessionIds : Len(gwSessions[u].llmHistory) = 3

\* the n most recent messages of the log, oldest first
MostRecent(log, n) ==
    IF Len(log) <= n THEN log ELSE [i \in 1..n |-> log[Len(log) - n + i]]

\* the histories of session u hold the most recent messages added since the
\* conversation was empty
HistoriesAreRecent(sessions, log, u) ==
    LET llm == sessions[u].llmHistory
        chat == sessions[u].chatHistory
        recentLlm == MostRecent(log[u], 20)
        recentChat == MostRecent(log[u], 50)
    IN  /\ Len(llm) <= 20 /\ Len(chat) <= 50
        /\ Len(llm) = Len(recentLlm) /\ Len(chat) = Len(recentChat)
        /\ \A i \in 1..Len(llm) :
              llm[i].role = recentLlm[i].role /\ llm[i].content = recentLlm[i].content
        /\ \A i \in 1..Len(chat) :
              chat[i].role = recentChat[i].role /\ chat[i].text = recentChat[i].content

\* the step clears the history of session u
ClearStep(u) == gwLog[u] # <<>> /\ gwLog'[u] = <<>>

\* C38: after any sequence of addUserMessage and addAssistantMessage on a
\* conversation that starts empty, llmHistory holds at most 20 messages and
\* chatHistory at most 50, each being exactly the most recent messages in
\* insertion order; clearing the history empties both lists and leaves the
\* owner name and session metadata (id, name, connected) unchanged.
C38_HistoriesCapped ==
    [][\A u \in {"u1"} :
          /\ HistoriesAreRecent(gwSessions', gwLog', u)
          /\ ClearStep(u)
                => /\ gwSessions'[u].llmHistory = <<>>
                   /\ gwSessions'[u].chatHistory = <<>>
                   /\ gwOwner' = gwOwner
                   /\ gwSessions'[u].exists = gwSessions[u].exists
                   /\ gwSessions'[u].name = gwSessions[u].name
                   /\ gwSessions'[u].connected = gwSessions[u].connected]_vars

\* more than 50 messages were added to the conversation of a named session
\* of a known owner: both histories are at their caps
C38_Witness ==
    /\ Len(gwLog["u1"]) > 50
    /\ Len(gwSessions["u1"].llmHistory) = 20
    /\ Len(gwSessions["u1"].chatHistory) = 50
    /\ gwSessions["u1"].chatHistory[1].text = Len(gwLog["u1"]) - 49
    /\ gwSessions["u1"].name = "tab"
    /\ gwOwner = "ana"

\* C39: all memory entries have pairwise distinct ids, including entries
\* created by addMemory calls completing within the same millisecond.
C39_DistinctIds ==
    \A i \in 1..Len(memEntries) : \A j \in 1..Len(memEntries) :
        i # j => memEntries[i].id # memEntries[j].id

====
